---- MODULE Spec2Model ----
(***************************************************************************)
(* A model of Bio/bgzf.py: the BGZF virtual-offset functions, the block    *)
(* decoder _load_bgzf_block, the random-access BgzfReader and the buffered *)
(* BgzfWriter.                                                             *)
(*                                                                         *)
(* Representation choices (the program's constants are kept as they are):  *)
(*  - Python integers that can exceed 31 bits (virtual offsets, 2**48) are *)
(*    records [neg, mag] with mag the little-endian base-65536 digits;     *)
(*    file offsets and lengths the model keeps small are TLC integers.     *)
(*  - A byte string is a sequence of segments <<c, from, n>>: for c in     *)
(*    0..255, n copies of the byte c (from = 0); for c = RND, the n bytes  *)
(*    from..from+n-1 of one fixed incompressible, newline-free stream.     *)
(*    Strings are kept canonical, so equal strings are equal values.       *)
(*  - The bytes of a file are a sequence of tokens: a run of literal bytes, *)
(*    the raw DEFLATE stream of a string, or the packed CRC-32 of one.     *)
(*  - An exception is the field exc of what a function returns ("" when it *)
(*    returns normally).  struct.pack raises struct.error for a value out  *)
(*    of the range of its format, as Python 2.7 and later do.              *)
(***************************************************************************)
EXTENDS Integers, Sequences, FiniteSets, TLC

VARIABLES
    vo,     \* the last call of the virtual-offset functions and its result
    w,      \* the BgzfWriter object together with its handle (the sink)
    wh,     \* history of the writer: what was passed to it, what it emitted
    r,      \* the BgzfReader object together with its handle (the source)
    rh      \* history of the reader: the file it reads, the last call

vars == <<vo, w, wh, r, rh>>

(***************************************************************************)
(* Python integers of arbitrary size                                       *)
(***************************************************************************)
Base == 2^16

RECURSIVE Limbs(_)
Limbs(n) == IF n = 0 THEN <<>> ELSE <<n % Base>> \o Limbs(n \div Base)

\* strip high-order zero digits
RECURSIVE Norm(_)
Norm(m) ==
    IF m = <<>> THEN <<>>
    ELSE IF m[Len(m)] = 0 THEN Norm(SubSeq(m, 1, Len(m) - 1))
    ELSE m

Py(n) == IF n < 0 THEN [neg |-> TRUE, mag |-> Limbs(-n)]
                  ELSE [neg |-> FALSE, mag |-> Limbs(n)]
PyMag(m) == [neg |-> FALSE, mag |-> Norm(m)]

\* the value of a Python integer as a TLC integer, where it is known to fit
RECURSIVE MagVal(_)
MagVal(m) == IF m = <<>> THEN 0 ELSE m[1] + Base * MagVal(Tail(m))
PyVal(x) == IF x.neg THEN -MagVal(x.mag) ELSE MagVal(x.mag)
Fits(x) == Len(x.mag) <= 1 \/ (Len(x.mag) = 2 /\ x.mag[2] < 16384)

RECURSIVE MagLess(_, _)
MagLess(a, b) ==
    IF Len(a) # Len(b) THEN Len(a) < Len(b)
    ELSE IF a = <<>> THEN FALSE
    ELSE IF a[Len(a)] # b[Len(b)] THEN a[Len(a)] < b[Len(b)]
    ELSE MagLess(SubSeq(a, 1, Len(a) - 1), SubSeq(b, 1, Len(b) - 1))

PyLess(x, y) ==
    IF x.neg /\ ~y.neg THEN TRUE
    ELSE IF ~x.neg /\ y.neg THEN FALSE
    ELSE IF x.neg THEN MagLess(y.mag, x.mag)
    ELSE MagLess(x.mag, y.mag)

\* bitwise operators on two digits, bit by bit
RECURSIVE BitOr(_, _, _)
BitOr(a, b, n) ==
    IF n = 0 THEN 0
    ELSE (IF a % 2 = 1 \/ b % 2 = 1 THEN 1 ELSE 0)
         + 2 * BitOr(a \div 2, b \div 2, n - 1)

RECURSIVE BitXor(_, _, _)
BitXor(a, b, n) ==
    IF n = 0 THEN 0
    ELSE (IF a % 2 # b % 2 THEN 1 ELSE 0)
         + 2 * BitXor(a \div 2, b \div 2, n - 1)

Digit(m, i) == IF i <= Len(m) THEN m[i] ELSE 0
MaxLen(a, b) == IF Len(a) > Len(b) THEN Len(a) ELSE Len(b)

\* x << 16, x >> 16, x | y, x ^ y on non-negative Python integers
PyShl16(x) == [neg |-> FALSE,
               mag |-> IF x.mag = <<>> THEN <<>> ELSE <<0>> \o x.mag]
PyShr16(x) == [neg |-> FALSE,
               mag |-> IF x.mag = <<>> THEN <<>> ELSE Tail(x.mag)]
PyOr(x, y) ==
    PyMag([i \in 1..MaxLen(x.mag, y.mag) |->
              BitOr(Digit(x.mag, i), Digit(y.mag, i), 16)])
PyXor(x, y) ==
    PyMag([i \in 1..MaxLen(x.mag, y.mag) |->
              BitXor(Digit(x.mag, i), Digit(y.mag, i), 16)])

Two16 == Py(65536)
Two48 == PyMag(<<0, 0, 0, 1>>)          \* 281474976710656
Two64 == PyMag(<<0, 0, 0, 0, 1>>)
Zero == Py(0)

(***************************************************************************)
(* make_virtual_offset, split_virtual_offset                               *)
(***************************************************************************)
\* the mutant accepts within_block_offset = 65536 (> for >=)
make_virtual_offset_gt(block_start_offset, within_block_offset) ==
    IF PyLess(within_block_offset, Zero) \/ PyLess(Two16, within_block_offset)
    THEN [exc |-> "ValueError", val |-> Zero]
    ELSE IF PyLess(block_start_offset, Zero)
            \/ ~PyLess(block_start_offset, Two48)
    THEN [exc |-> "ValueError", val |-> Zero]
    ELSE [exc |-> "",
          val |-> PyOr(PyShl16(block_start_offset), within_block_offset)]

make_virtual_offset(block_start_offset, within_block_offset) ==
    IF PyLess(within_block_offset, Zero) \/ ~PyLess(within_block_offset, Two16)
    THEN [exc |-> "ValueError", val |-> Zero]
    ELSE IF PyLess(block_start_offset, Zero)
            \/ ~PyLess(block_start_offset, Two48)
    THEN [exc |-> "ValueError", val |-> Zero]
    ELSE [exc |-> "",
          val |-> PyOr(PyShl16(block_start_offset), within_block_offset)]

\* the mutant shifts the block start back by the wrong amount (none at all)
split_virtual_offset_noshift(virtual_offset) ==
    LET start == PyShr16(virtual_offset)
    IN  <<start, PyXor(virtual_offset, start)>>

split_virtual_offset(virtual_offset) ==
    LET start == PyShr16(virtual_offset)
    IN  <<start, PyXor(virtual_offset, PyShl16(start))>>

(***************************************************************************)
(* Calls of the two functions on a bounded set of arguments                *)
(***************************************************************************)
COffsets ==
    { Py(-1), Py(0), Py(1), Py(18239), Py(100000),
      PyMag(<<65535, 65535, 65535>>),      \* 2**48 - 1
      Two48,
      PyMag(<<1, 0, 0, 1>>) }              \* 2**48 + 1
UOffsets ==
    { Py(-1), Py(0), Py(1), Py(4), Py(10), Py(65535), Py(65536), Py(65537) }
VOffsets ==
    { Py(0), Py(1), Py(65535), Py(65536), Py(131071),
      PyMag(<<4, 18239>>),                     \* 1195311108
      PyMag(<<0, 34464, 1>>),                  \* 6553600000
      PyMag(<<10, 34464, 1>>),                 \* 6553600010
      PyMag(<<65535, 65535, 65535, 65535>>) }  \* 2**64 - 1

NoCall == [op |-> "none", c |-> Zero, u |-> Zero, v |-> Zero,
           exc |-> "", val |-> Zero, pair |-> <<Zero, Zero>>]

CallMake(c, u) ==
    LET m == make_virtual_offset(c, u)
    IN  [op |-> "make", c |-> c, u |-> u, v |-> Zero,
         exc |-> m.exc, val |-> m.val, pair |-> <<Zero, Zero>>]

CallSplit(v) ==
    [op |-> "split", c |-> Zero, u |-> Zero, v |-> v,
     exc |-> "", val |-> Zero, pair |-> split_virtual_offset(v)]

\* split_virtual_offset(make_virtual_offset(c, u))
CallSplitOfMake(c, u) ==
    LET m == make_virtual_offset(c, u)
    IN  [op |-> "split_make", c |-> c, u |-> u, v |-> Zero,
         exc |-> m.exc, val |-> m.val,
         pair |-> IF m.exc = "" THEN split_virtual_offset(m.val)
                  ELSE <<Zero, Zero>>]

\* make_virtual_offset(*split_virtual_offset(v))
CallMakeOfSplit(v) ==
    LET p == split_virtual_offset(v)
        m == make_virtual_offset(p[1], p[2])
    IN  [op |-> "make_split", c |-> Zero, u |-> Zero, v |-> v,
         exc |-> m.exc, val |-> m.val, pair |-> p]

(***************************************************************************)
(* Byte strings                                                            *)
(***************************************************************************)
RND == 255 + 1      \* the tag of a slice of the incompressible stream

Rep(c, n) == IF n <= 0 THEN <<>> ELSE << <<c, 0, n>> >>
Rnd(from, n) == IF n <= 0 THEN <<>> ELSE << <<RND, from, n>> >>

RECURSIVE BLenFrom(_, _)
BLenFrom(s, i) == IF i > Len(s) THEN 0 ELSE s[i][3] + BLenFrom(s, i + 1)
\* len(s)
BLen(s) == BLenFrom(s, 1)

Joins(x, y) == x[1] = y[1] /\ (x[1] # RND \/ x[2] + x[3] = y[2])

\* a + b
BCat(a, b) ==
    IF a = <<>> THEN b
    ELSE IF b = <<>> THEN a
    ELSE IF Joins(a[Len(a)], b[1])
    THEN SubSeq(a, 1, Len(a) - 1)
         \o << <<b[1][1], a[Len(a)][2], a[Len(a)][3] + b[1][3]>> >>
         \o Tail(b)
    ELSE a \o b

\* s[:k] for k >= 0, from segment i on
RECURSIVE BTakeFrom(_, _, _)
BTakeFrom(s, i, k) ==
    IF i > Len(s) \/ k <= 0 THEN <<>>
    ELSE IF s[i][3] <= k THEN <<s[i]>> \o BTakeFrom(s, i + 1, k - s[i][3])
    ELSE << <<s[i][1], s[i][2], k>> >>
BTake(s, k) == BTakeFrom(s, 1, k)

\* s[k:] for k >= 0, from segment i on
RECURSIVE BDropFrom(_, _, _)
BDropFrom(s, i, k) ==
    IF i > Len(s) THEN <<>>
    ELSE IF k <= 0 THEN SubSeq(s, i, Len(s))
    ELSE IF s[i][3] <= k THEN BDropFrom(s, i + 1, k - s[i][3])
    ELSE << <<s[i][1], IF s[i][1] = RND THEN s[i][2] + k ELSE 0,
              s[i][3] - k>> >> \o SubSeq(s, i + 1, Len(s))
BDrop(s, k) == BDropFrom(s, 1, k)

\* s[i:j] for 0 <= i, 0 <= j
BSlice(s, i, j) == IF j <= i THEN <<>> ELSE BTake(BDrop(s, i), j - i)

\* s.find(c, start) for one byte c: the first index >= start holding c, or -1.
\* (seg: the segment looked at, off: the index of its first byte)
RECURSIVE BFindFrom(_, _, _, _, _)
BFindFrom(s, c, start, seg, off) ==
    IF seg > Len(s) THEN -1
    ELSE IF s[seg][1] = c /\ off + s[seg][3] > start
    THEN (IF start > off THEN start ELSE off)
    ELSE BFindFrom(s, c, start, seg + 1, off + s[seg][3])
BFind(s, c, start) == BFindFrom(s, c, start, 1, 0)

(***************************************************************************)
(* zlib and struct, as far as the module uses them                         *)
(***************************************************************************)
\* The length of the raw DEFLATE stream of a string: two bytes for the empty
\* string ("\x03\x00", as in _bgzf_eof); a run of one byte shrinks to a few
\* bytes; incompressible bytes are stored, five bytes of framing for each
\* 65535 of them.
ZSeg(x) == IF x[1] = RND THEN x[3] + 5 * ((x[3] + 65534) \div 65535)
           ELSE 1 + x[3] \div 258
RECURSIVE ZSum(_, _)
ZSum(s, i) == IF i > Len(s) THEN 0 ELSE ZSeg(s[i]) + ZSum(s, i + 1)
ZLen(s) == 2 + ZSum(s, 1)

\* The bytes of a file: a sequence of tokens, each a run of literal bytes
\* (v), the DEFLATE stream of a string (d) or the packed CRC-32 of a string
\* (d); no two literal tokens are adjacent.  A read that ends inside a
\* stream or a CRC gets a "cut" token, v[1] bytes of unknown value.
Lit(bs) == [t |-> "b", v |-> bs, d |-> <<>>]
IsLit(tk) == tk.t = "b"
TokLen(tk) ==
    CASE tk.t = "b" -> Len(tk.v)
      [] tk.t = "z" -> ZLen(tk.d)
      [] tk.t = "crc" -> 4
      [] OTHER -> tk.v[1]

RECURSIVE TLenFrom(_, _)
TLenFrom(ts, i) == IF i > Len(ts) THEN 0 ELSE TokLen(ts[i]) + TLenFrom(ts, i + 1)
TLen(ts) == TLenFrom(ts, 1)

\* a + b on the bytes of a file
TCat(a, b) ==
    IF a = <<>> THEN b
    ELSE IF b = <<>> THEN a
    ELSE IF IsLit(a[Len(a)]) /\ IsLit(b[1])
    THEN SubSeq(a, 1, Len(a) - 1) \o <<Lit(a[Len(a)].v \o b[1].v)>> \o Tail(b)
    ELSE a \o b

\* c.compress(block) + c.flush() of zlib.compressobj(level, DEFLATED, -15, ...)
zlib_compress(block) ==
    IF block = <<>> THEN <<Lit(<<3, 0>>)>>
    ELSE << [t |-> "z", v |-> <<>>, d |-> block] >>

\* d.decompress(bytes) + d.flush() of zlib.decompressobj(-15); bytes after the
\* end of the stream are left in unused_data; a cut stream gives other bytes
zlib_decompress(ts) ==
    IF ts # <<>> /\ IsLit(ts[1]) /\ Len(ts[1].v) >= 2
       /\ SubSeq(ts[1].v, 1, 2) = <<3, 0>>
    THEN [ok |-> TRUE, data |-> <<>>]
    ELSE IF ts # <<>> /\ ts[1].t = "z" THEN [ok |-> TRUE, data |-> ts[1].d]
    ELSE [ok |-> FALSE, data |-> <<>>]

\* struct.pack("<I", zlib.crc32(block) & 0xffffffff)
pack_crc32(block) ==
    IF block = <<>> THEN <<Lit(<<0, 0, 0, 0>>)>>
    ELSE << [t |-> "crc", v |-> <<>>, d |-> block] >>

\* struct.pack("<H", n) and struct.pack("<I", n); struct.error out of range
pack_H_ok(n) == 0 <= n /\ n <= 65535
pack_H(n) == <<Lit(<<n % 256, n \div 256>>)>>
pack_I(n) == <<Lit(<<n % 256, (n \div 256) % 256,
                     (n \div 65536) % 256, n \div 16777216>>)>>

\* struct.unpack("<H", bytes)[0] and struct.unpack("<I", bytes)[0];
\* -1 stands for struct.error (not the right number of bytes) and for the
\* value of bytes that are not literal in the model
unpack_H(ts) ==
    IF Len(ts) = 1 /\ IsLit(ts[1]) /\ Len(ts[1].v) = 2
    THEN ts[1].v[1] + 256 * ts[1].v[2] ELSE -1
unpack_I(ts) ==
    IF Len(ts) = 1 /\ IsLit(ts[1]) /\ Len(ts[1].v) = 4
    THEN ts[1].v[1] + 256 * ts[1].v[2] + 65536 * ts[1].v[3]
         + 16777216 * ts[1].v[4]
    ELSE -1

_bgzf_magic == <<Lit(<<31, 139, 8, 4>>)>>
_bgzf_header ==
    <<Lit(<<31, 139, 8, 4, 0, 0, 0, 0, 0, 255, 6, 0, 66, 67, 2, 0>>)>>
_bgzf_eof ==
    <<Lit(<<31, 139, 8, 4, 0, 0, 0, 0, 0, 255, 6, 0, 66, 67,
            2, 0, 27, 0, 3, 0, 0, 0, 0, 0, 0, 0, 0, 0>>)>>
_bytes_BC == <<Lit(<<66, 67>>)>>
_bytes_newline == 10

(***************************************************************************)
(* A file handle: the bytes, the position, closed or not                   *)
(***************************************************************************)
NewHandle(ts) == [data |-> ts, pos |-> TLen(ts), closed |-> FALSE]

\* the bytes of ts from token i on, after skipping skip bytes, up to n bytes
RECURSIVE ReadAt(_, _, _, _)
ReadAt(ts, i, skip, n) ==
    IF i > Len(ts) \/ n <= 0 THEN <<>>
    ELSE LET len == TokLen(ts[i])
             got == IF len - skip < n THEN len - skip ELSE n
         IN  IF skip >= len THEN ReadAt(ts, i + 1, skip - len, n)
             ELSE IF IsLit(ts[i])
             THEN TCat(<<Lit(SubSeq(ts[i].v, skip + 1, skip + got))>>,
                       ReadAt(ts, i + 1, 0, n - got))
             ELSE IF skip = 0 /\ len <= n
             THEN <<ts[i]>> \o ReadAt(ts, i + 1, 0, n - len)
             ELSE << [t |-> "cut", v |-> <<got>>, d |-> <<>>] >>
                  \o ReadAt(ts, i + 1, 0, n - got)

\* handle.read(n): the bytes read and the handle afterwards
handle_read(h, n) ==
    LET got == ReadAt(h.data, 1, h.pos, IF n < 0 THEN TLen(h.data) ELSE n)
    IN  [bytes |-> got, h |-> [h EXCEPT !.pos = h.pos + TLen(got)]]

\* handle.seek(offset)
handle_seek(h, offset) == [h EXCEPT !.pos = offset]

\* handle.write(bytes) on a handle positioned at its end
handle_write(h, ts) ==
    [h EXCEPT !.data = TCat(h.data, ts), !.pos = h.pos + TLen(ts)]

(***************************************************************************)
(* _load_bgzf_block                                                        *)
(***************************************************************************)
None == 0 - 1      \* Python's None where the code holds an integer or None

RECURSIVE load_subfields(_, _)
\* the loop with block_size taken as the BC value itself (without "+ 1")
load_subfields_raw(st, extra_len) ==
    LET \* after subfield_data = handle.read(subfield_len)
        with_data(id, subfield_len, dt) ==
            IF id.bytes = _bytes_BC /\ subfield_len # 2
            THEN [st EXCEPT !.exc = "AssertionError", !.h = dt.h]
            ELSE IF id.bytes = _bytes_BC /\ st.block_size # None
            THEN [st EXCEPT !.exc = "AssertionError", !.h = dt.h]
            ELSE load_subfields(
                    [exc |-> "", h |-> dt.h,
                     x_len |-> st.x_len + subfield_len + 4,
                     block_size |-> IF id.bytes = _bytes_BC
                                    THEN unpack_H(dt.bytes)
                                    ELSE st.block_size],
                    extra_len)
        \* after subfield_len = struct.unpack("<H", handle.read(2))[0]
        with_len(id, ln) ==
            IF unpack_H(ln.bytes) = -1
            THEN [st EXCEPT !.exc = "struct.error", !.h = ln.h]
            ELSE with_data(id, unpack_H(ln.bytes),
                           handle_read(ln.h, unpack_H(ln.bytes)))
        \* after subfield_id = handle.read(2)
        with_id(id) == with_len(id, handle_read(id.h, 2))
    IN  IF st.exc # "" \/ ~(st.x_len < extra_len) THEN st
        ELSE with_id(handle_read(st.h, 2))

\* the loop over the subfields of the extra area; st = [exc, h, x_len, block_size]
load_subfields(st, extra_len) ==
    LET \* after subfield_data = handle.read(subfield_len)
        with_data(id, subfield_len, dt) ==
            IF id.bytes = _bytes_BC /\ subfield_len # 2
            THEN [st EXCEPT !.exc = "AssertionError", !.h = dt.h]
            ELSE IF id.bytes = _bytes_BC /\ st.block_size # None
            THEN [st EXCEPT !.exc = "AssertionError", !.h = dt.h]
            ELSE load_subfields(
                    [exc |-> "", h |-> dt.h,
                     x_len |-> st.x_len + subfield_len + 4,
                     block_size |-> IF id.bytes = _bytes_BC
                                    THEN unpack_H(dt.bytes) + 1
                                    ELSE st.block_size],
                    extra_len)
        \* after subfield_len = struct.unpack("<H", handle.read(2))[0]
        with_len(id, ln) ==
            IF unpack_H(ln.bytes) = -1
            THEN [st EXCEPT !.exc = "struct.error", !.h = ln.h]
            ELSE with_data(id, unpack_H(ln.bytes),
                           handle_read(ln.h, unpack_H(ln.bytes)))
        \* after subfield_id = handle.read(2)
        with_id(id) == with_len(id, handle_read(id.h, 2))
    IN  IF st.exc # "" \/ ~(st.x_len < extra_len) THEN st
        ELSE with_id(handle_read(st.h, 2))

\* the mutant takes block_size for the BC payload (drops the "- 1")
deflate_size_of_bsize(block_size, extra_len) == block_size - extra_len - 19

\* deflate_size = block_size - 1 - extra_len - 19
deflate_size_of(block_size, extra_len) == block_size - 1 - extra_len - 19

\* the result: [exc, block_size, data, h] and two history fields; h is the
\* handle afterwards, extra_len and deflate_size the values of these two
\* locals when the block was decoded (0 when it was not)
_load_bgzf_block(handle) ==
    LET fail(e, h) == [exc |-> e, block_size |-> 0, data |-> <<>>, h |-> h,
                       extra_len |-> 0, deflate_size |-> 0]
        \* after expected_size = struct.unpack("<I", handle.read(4))[0]
        with_size(block_size, sizes, data, expected_crc, sz) ==
            IF unpack_I(sz.bytes) = -1 THEN fail("struct.error", sz.h)
            ELSE IF unpack_I(sz.bytes) # BLen(data)
            THEN fail("AssertionError", sz.h)
            ELSE IF expected_crc.bytes # pack_crc32(data)
            THEN fail("AssertionError", sz.h)
            ELSE [exc |-> "", block_size |-> block_size, data |-> data,
                  h |-> sz.h, extra_len |-> sizes[1],
                  deflate_size |-> sizes[2]]
        \* after expected_crc = handle.read(4)
        with_crc(block_size, sizes, data, expected_crc) ==
            with_size(block_size, sizes, data, expected_crc,
                      handle_read(expected_crc.h, 4))
        \* data = d.decompress(handle.read(deflate_size)) + d.flush()
        with_payload(block_size, sizes, payload) ==
            IF ~zlib_decompress(payload.bytes).ok
            THEN fail("zlib.error", payload.h)
            ELSE with_crc(block_size, sizes,
                          zlib_decompress(payload.bytes).data,
                          handle_read(payload.h, 4))
        \* after deflate_size = block_size - 1 - extra_len - 19
        with_deflate_size(block_size, extra_len, deflate_size, h) ==
            with_payload(block_size, <<extra_len, deflate_size>>,
                         handle_read(h, deflate_size))
        \* after the loop over the subfields
        with_extra(sub, extra_len) ==
            IF sub.exc # "" THEN fail(sub.exc, sub.h)
            ELSE IF sub.x_len # extra_len THEN fail("AssertionError", sub.h)
            ELSE IF sub.block_size = None THEN fail("AssertionError", sub.h)
            ELSE with_deflate_size(
                    sub.block_size, extra_len,
                    deflate_size_of(sub.block_size, extra_len), sub.h)
        \* after extra_len = struct.unpack("<H", handle.read(2))[0]
        with_xlen(xl) ==
            IF unpack_H(xl.bytes) = -1 THEN fail("struct.error", xl.h)
            ELSE with_extra(
                    load_subfields([exc |-> "", h |-> xl.h, x_len |-> 0,
                                    block_size |-> None],
                                   unpack_H(xl.bytes)),
                    unpack_H(xl.bytes))
        \* after magic = handle.read(4); gzip_mod_time (4 bytes),
        \* gzip_extra_flags (1) and gzip_os (1) are read and not used
        with_magic(magic) ==
            IF magic.bytes = <<>> THEN fail("StopIteration", magic.h)
            ELSE IF magic.bytes # _bgzf_magic THEN fail("ValueError", magic.h)
            ELSE with_xlen(
                    handle_read(
                       handle_read(
                          handle_read(handle_read(magic.h, 4).h, 1).h, 1).h,
                       2))
    IN  with_magic(handle_read(handle, 4))

\* BgzfBlocks(handle): the blocks from the handle's position on, as
\* [start_offset, block_length, data_start, data]; exc is "" when the
\* generator ends at the end of the file, else what it raised
RECURSIVE BgzfBlocksFrom(_, _, _)
BgzfBlocksFrom(handle, data_start, acc) ==
    LET yield(b) ==
            IF b.exc = "StopIteration" THEN [exc |-> "", blocks |-> acc]
            ELSE IF b.exc # "" THEN [exc |-> b.exc, blocks |-> acc]
            ELSE BgzfBlocksFrom(b.h, data_start + BLen(b.data),
                    Append(acc, [start_offset |-> handle.pos,
                                 block_length |-> b.block_size,
                                 data_start |-> data_start,
                                 data |-> b.data]))
    IN  yield(_load_bgzf_block(handle))

BgzfBlocks(ts) ==
    BgzfBlocksFrom([data |-> ts, pos |-> 0, closed |-> FALSE], 0, <<>>)

\* the same loop, keeping for each block what _load_bgzf_block computed:
\* [block_size, extra_len, deflate_size]
RECURSIVE DecodedFrom(_, _)
DecodedFrom(handle, acc) ==
    LET yield(b) ==
            IF b.exc = "StopIteration" THEN [exc |-> "", blocks |-> acc]
            ELSE IF b.exc # "" THEN [exc |-> b.exc, blocks |-> acc]
            ELSE DecodedFrom(b.h,
                    Append(acc, [block_size |-> b.block_size,
                                 extra_len |-> b.extra_len,
                                 deflate_size |-> b.deflate_size]))
    IN  yield(_load_bgzf_block(handle))

Decoded(ts) == DecodedFrom([data |-> ts, pos |-> 0, closed |-> FALSE], <<>>)

(***************************************************************************)
(* BgzfWriter                                                              *)
(*   self = [buffer, handle] and two history fields: log, one entry        *)
(*   [csize, isize, wrote] for each call of _write_block (csize the length *)
(*   of the compressed payload, -1 when the call failed before compressing;*)
(*   wrote the bytes it added to the sink), and neof, how often close      *)
(*   wrote _bgzf_eof.                                                      *)
(***************************************************************************)
\* __init__ on a handle just opened for writing
BgzfWriter_init ==
    [buffer |-> <<>>, handle |-> NewHandle(<<>>), log |-> <<>>, neof |-> 0]

Logged(self, csize, isize, wrote) ==
    [self EXCEPT !.log = Append(@, [csize |-> csize, isize |-> isize,
                                    wrote |-> wrote])]

\* the mutant packs bsize without struct's range check (the value wraps)
_write_block_wrap(self, block) ==
    LET compressed == zlib_compress(block)
        csize == TLen(compressed)
        data == TCat(TCat(TCat(TCat(_bgzf_header, pack_H((csize + 25) % 65536)),
                               compressed), pack_crc32(block)),
                     pack_I(BLen(block)))
    IN  IF self.handle.closed
        THEN [self |-> Logged(self, -1, BLen(block), 0), exc |-> "ValueError"]
        ELSE IF ~(BLen(block) <= 65536)
        THEN [self |-> Logged(self, -1, BLen(block), 0), exc |-> "AssertionError"]
        ELSE IF ~(csize < 65536)
        THEN [self |-> Logged(self, csize, BLen(block), 0),
              exc |-> "AssertionError"]
        ELSE [self |-> [Logged(self, csize, BLen(block), TLen(data))
                           EXCEPT !.handle = handle_write(self.handle, data)],
              exc |-> ""]

\* _write_block(block): [self, exc]
_write_block(self, block) ==
    LET compressed == zlib_compress(block)
        csize == TLen(compressed)
        data == TCat(TCat(TCat(TCat(_bgzf_header, pack_H(csize + 25)),
                               compressed), pack_crc32(block)),
                     pack_I(BLen(block)))
    IN  IF self.handle.closed       \* self._handle.tell() on a closed file
        THEN [self |-> Logged(self, -1, BLen(block), 0), exc |-> "ValueError"]
        ELSE IF ~(BLen(block) <= 65536)
        THEN [self |-> Logged(self, -1, BLen(block), 0), exc |-> "AssertionError"]
        ELSE IF ~(csize < 65536)
        THEN [self |-> Logged(self, csize, BLen(block), 0),
              exc |-> "AssertionError"]
        ELSE IF ~pack_H_ok(csize + 25)
        THEN [self |-> Logged(self, csize, BLen(block), 0),
              exc |-> "struct.error"]
        ELSE [self |-> [Logged(self, csize, BLen(block), TLen(data))
                           EXCEPT !.handle = handle_write(self.handle, data)],
              exc |-> ""]

\* the loop of write that keeps the last byte of each block written in the
\* buffer (self._buffer[65535:] for self._buffer[65536:])
RECURSIVE write_loop_keeping(_)
write_loop_keeping(self) ==
    LET after(b) ==
            IF b.exc # "" THEN b
            ELSE write_loop_keeping([b.self EXCEPT !.buffer = BDrop(@, 65535)])
    IN  IF ~(BLen(self.buffer) >= 65536) THEN [self |-> self, exc |-> ""]
        ELSE after(_write_block(self, BTake(self.buffer, 65536)))

\* while len(self._buffer) >= 65536: write self._buffer[:65536], keep the rest
RECURSIVE write_loop(_)
write_loop(self) ==
    LET after(b) ==
            IF b.exc # "" THEN b
            ELSE write_loop([b.self EXCEPT !.buffer = BDrop(@, 65536)])
    IN  IF ~(BLen(self.buffer) >= 65536) THEN [self |-> self, exc |-> ""]
        ELSE after(_write_block(self, BTake(self.buffer, 65536)))

\* write(data): [self, exc]
BgzfWriter_write(self, data) ==
    IF BLen(self.buffer) + BLen(data) < 65536
    THEN [self |-> [self EXCEPT !.buffer = BCat(@, data)], exc |-> ""]
    ELSE write_loop([self EXCEPT !.buffer = BCat(@, data)])

\* while len(self._buffer) >= 65536: write self._buffer[:65535], keep the rest
RECURSIVE flush_loop(_)
flush_loop(self) ==
    LET after(b) ==
            IF b.exc # "" THEN b
            ELSE flush_loop([b.self EXCEPT !.buffer = BDrop(@, 65535)])
    IN  IF ~(BLen(self.buffer) >= 65536) THEN [self |-> self, exc |-> ""]
        ELSE after(_write_block(self, BTake(self.buffer, 65535)))

\* flush() that writes the last block only when bytes remain in the buffer
BgzfWriter_flush_lazy(self) ==
    LET emptied(b) ==
            IF b.exc # "" THEN b
            ELSE IF b.self.handle.closed
            THEN [self |-> [b.self EXCEPT !.buffer = <<>>],
                  exc |-> "ValueError"]
            ELSE [self |-> [b.self EXCEPT !.buffer = <<>>], exc |-> ""]
        after(l) ==
            IF l.exc # "" THEN l
            ELSE emptied(IF l.self.buffer = <<>> THEN l
                         ELSE _write_block(l.self, l.self.buffer))
    IN  after(flush_loop(self))

\* flush(): [self, exc]
BgzfWriter_flush(self) ==
    LET \* self._buffer = ""; self._handle.flush()
        emptied(b) ==
            IF b.exc # "" THEN b
            ELSE IF b.self.handle.closed
            THEN [self |-> [b.self EXCEPT !.buffer = <<>>],
                  exc |-> "ValueError"]
            ELSE [self |-> [b.self EXCEPT !.buffer = <<>>], exc |-> ""]
        \* self._write_block(self._buffer)
        after(l) ==
            IF l.exc # "" THEN l
            ELSE emptied(_write_block(l.self, l.self.buffer))
    IN  after(flush_loop(self))

\* the mutant leaves the handle open (drops self._handle.close())
BgzfWriter_close_noclose(self) ==
    LET after(f) ==
            IF f.exc # "" THEN f
            ELSE IF f.self.handle.closed
            THEN [self |-> f.self, exc |-> "ValueError"]
            ELSE [self |-> [f.self EXCEPT
                               !.handle = handle_write(f.self.handle, _bgzf_eof),
                               !.neof = @ + 1],
                  exc |-> ""]
    IN  after(IF self.buffer # <<>> THEN BgzfWriter_flush(self)
              ELSE [self |-> self, exc |-> ""])

\* close(): [self, exc]
BgzfWriter_close(self) ==
    LET after(f) ==
            IF f.exc # "" THEN f
            ELSE IF f.self.handle.closed   \* self._handle.write on a closed file
            THEN [self |-> f.self, exc |-> "ValueError"]
            ELSE [self |-> [f.self EXCEPT
                               !.handle = [handle_write(f.self.handle, _bgzf_eof)
                                              EXCEPT !.closed = TRUE],
                               !.neof = @ + 1],
                  exc |-> ""]
    IN  after(IF self.buffer # <<>> THEN BgzfWriter_flush(self)
              ELSE [self |-> self, exc |-> ""])

\* tell(): self.handle is not an attribute of the object (it is self._handle)
BgzfWriter_tell(self) == [self |-> self, exc |-> "AttributeError", val |-> Zero]

(***************************************************************************)
(* BgzfReader                                                              *)
(*   self = [handle, max_cache, buffers, block_start, block_raw, buffer,   *)
(*   within]; buffers, the cache, is a set of entries [key, buffer, raw],  *)
(*   one for each key.  dict.popitem() removes an entry of its choosing,   *)
(*   so the methods that load a block have a set of possible outcomes.     *)
(*   Text and binary mode differ only in the type of the strings (Python   *)
(*   2), so the model has one mode.                                        *)
(***************************************************************************)
Cached(self, key) == \E e \in self.buffers : e.key = key
Entry(self, key) == CHOOSE e \in self.buffers : e.key = key

\* the mutant evicts nothing (drops the while loop with popitem)
Evictions_none(buffers, max_cache) == {buffers}

\* while len(self._buffers) >= self.max_cache: self._buffers.popitem()
Evictions(buffers, max_cache) ==
    IF Cardinality(buffers) < max_cache THEN {buffers}
    ELSE {c \in SUBSET buffers : Cardinality(c) = max_cache - 1}

\* the part of _load_block that reads the block from the file
load_from_disk(self, start_offset) ==
    LET handle == handle_seek(self.handle, start_offset)
        store(b, block_size, buffer) ==
            IF b.exc # "" /\ b.exc # "StopIteration"
            THEN [self |-> [self EXCEPT !.handle = b.h,
                                        !.block_start = handle.pos],
                  exc |-> b.exc]
            ELSE [self |-> [self EXCEPT
                      !.handle = b.h,
                      !.block_start = handle.pos,
                      !.buffer = buffer,
                      !.within = 0,
                      !.block_raw = block_size,
                      !.buffers = {e \in @ : e.key # handle.pos}
                                  \cup {[key |-> handle.pos, buffer |-> buffer,
                                         raw |-> block_size]}],
                  exc |-> ""]
        \* except StopIteration: block_size = 0 and the buffer is empty
        try(b) ==
            store(b, IF b.exc = "StopIteration" THEN 0 ELSE b.block_size,
                  IF b.exc = "StopIteration" THEN <<>> ELSE b.data)
    IN  try(_load_bgzf_block(handle))

\* _load_block that takes the buffer of a cached block from the cache, and
\* not its block_raw_length
_load_block_stale(self, start_offset_or_None) ==
    LET start_offset == IF start_offset_or_None = None
                        THEN self.block_start + self.block_raw
                        ELSE start_offset_or_None
    IN  IF start_offset = self.block_start
        THEN {[self |-> [self EXCEPT !.within = 0], exc |-> ""]}
        ELSE IF Cached(self, start_offset)
        THEN {[self |-> [self EXCEPT
                  !.buffer = Entry(self, start_offset).buffer,
                  !.within = 0,
                  !.block_start = start_offset],
               exc |-> ""]}
        ELSE {load_from_disk([self EXCEPT !.buffers = c], start_offset) :
                 c \in Evictions(self.buffers, self.max_cache)}

\* _load_block(start_offset): the set of possible [self, exc]
_load_block(self, start_offset_or_None) ==
    LET start_offset == IF start_offset_or_None = None
                        THEN self.block_start + self.block_raw
                        ELSE start_offset_or_None
    IN  IF start_offset = self.block_start
        THEN {[self |-> [self EXCEPT !.within = 0], exc |-> ""]}
        ELSE IF Cached(self, start_offset)
        THEN {[self |-> [self EXCEPT
                  !.buffer = Entry(self, start_offset).buffer,
                  !.block_raw = Entry(self, start_offset).raw,
                  !.within = 0,
                  !.block_start = start_offset],
               exc |-> ""]}
        ELSE {load_from_disk([self EXCEPT !.buffers = c], start_offset) :
                 c \in Evictions(self.buffers, self.max_cache)}

\* the lower-case letters of a mode string (mode.lower(), handle.mode.lower())
ModeLetters(mode) ==
    CASE mode = "r" -> {"r"}
      [] mode = "rb" -> {"r", "b"}
      [] mode = "RB" -> {"r", "b"}
      [] mode = "w" -> {"w"}
      [] mode = "wb" -> {"w", "b"}
      [] mode = "a" -> {"a"}
      [] OTHER -> {}

\* the fields of a reader on which __init__ raised before setting them
NoReader ==
    [handle |-> [data |-> <<>>, pos |-> 0, closed |-> FALSE], max_cache |-> 0,
     buffers |-> {}, block_start |-> None, block_raw |-> None,
     buffer |-> <<>>, within |-> 0]

\* __init__(filename, mode, fileobj, max_cache): the set of possible
\* [self, exc].  An argument that is None is <<>>; filename is <<ts>> for the
\* name of a file that holds ts, mode is <<m>> for the string m, fileobj is
\* <<f>> for an open file f = [h, mode], h its handle.
BgzfReader_init(filename, mode, fileobj, max_cache) ==
    LET fail(e) == {[self |-> NoReader, exc |-> e]}
        \* from self._text = "b" not in mode.lower() on
        with_handle(handle) ==
            IF mode = <<>> THEN fail("AttributeError")
            ELSE _load_block([handle |-> handle, max_cache |-> max_cache,
                              buffers |-> {}, block_start |-> None,
                              block_raw |-> None, buffer |-> <<>>,
                              within |-> 0],
                             handle.pos)
    IN  IF max_cache < 1 THEN fail("ValueError")
        ELSE IF fileobj # <<>>
        THEN IF ~(filename = <<>> /\ mode = <<>>)
             THEN fail("AssertionError")
             ELSE IF "b" \notin ModeLetters(fileobj[1].mode)
             THEN fail("AssertionError")
             ELSE with_handle(fileobj[1].h)
        ELSE IF mode = <<>> THEN fail("AttributeError")
        ELSE IF "w" \in ModeLetters(mode[1]) \/ "a" \in ModeLetters(mode[1])
        THEN fail("ValueError")
        ELSE IF filename = <<>> THEN fail("TypeError")
        ELSE with_handle([data |-> filename[1], pos |-> 0, closed |-> FALSE])

\* the mutant has no special case for the end of a block
BgzfReader_tell_plain(self) ==
    PyOr(PyShl16(Py(self.block_start)), Py(self.within))

\* tell()
BgzfReader_tell(self) ==
    IF 0 < self.within /\ self.within = BLen(self.buffer)
    THEN PyShl16(Py(self.block_start + self.block_raw))
    ELSE PyOr(PyShl16(Py(self.block_start)), Py(self.within))

\* seek(virtual_offset) without the test of within_block against the buffer
BgzfReader_seek_unchecked(self, virtual_offset) ==
    LET start_offset == PyVal(PyShr16(virtual_offset))
        within_block == PyVal(PyXor(virtual_offset,
                                    PyShl16(PyShr16(virtual_offset))))
        loaded == IF start_offset # self.block_start
                  THEN _load_block(self, start_offset)
                  ELSE {[self |-> self, exc |-> ""]}
    IN  { IF l.exc # "" THEN [self |-> l.self, exc |-> l.exc, val |-> Zero]
          ELSE [self |-> [l.self EXCEPT !.within = within_block],
                exc |-> "", val |-> virtual_offset]
          : l \in loaded }

\* seek(virtual_offset) that leaves the reader as it found it when
\* within_block is out of range
BgzfReader_seek_restoring(self, virtual_offset) ==
    LET start_offset == PyVal(PyShr16(virtual_offset))
        within_block == PyVal(PyXor(virtual_offset,
                                    PyShl16(PyShr16(virtual_offset))))
        loaded == IF start_offset # self.block_start
                  THEN _load_block(self, start_offset)
                  ELSE {[self |-> self, exc |-> ""]}
    IN  { IF l.exc # "" THEN [self |-> l.self, exc |-> l.exc, val |-> Zero]
          ELSE IF start_offset # l.self.block_start
          THEN [self |-> l.self, exc |-> "AssertionError", val |-> Zero]
          ELSE IF within_block >= BLen(l.self.buffer)
                  /\ ~(within_block = 0 /\ BLen(l.self.buffer) = 0)
          THEN [self |-> self, exc |-> "ValueError", val |-> Zero]
          ELSE [self |-> [l.self EXCEPT !.within = within_block],
                exc |-> "", val |-> virtual_offset]
          : l \in loaded }

\* seek(virtual_offset): the set of possible [self, exc, val]
BgzfReader_seek(self, virtual_offset) ==
    LET start_offset == PyVal(PyShr16(virtual_offset))
        within_block == PyVal(PyXor(virtual_offset,
                                    PyShl16(PyShr16(virtual_offset))))
        loaded == IF start_offset # self.block_start
                  THEN _load_block(self, start_offset)
                  ELSE {[self |-> self, exc |-> ""]}
    IN  { IF l.exc # "" THEN [self |-> l.self, exc |-> l.exc, val |-> Zero]
          ELSE IF start_offset # l.self.block_start
          THEN [self |-> l.self, exc |-> "AssertionError", val |-> Zero]
          ELSE IF within_block >= BLen(l.self.buffer)
                  /\ ~(within_block = 0 /\ BLen(l.self.buffer) = 0)
          THEN [self |-> l.self, exc |-> "ValueError", val |-> Zero]
          ELSE [self |-> [l.self EXCEPT !.within = within_block],
                exc |-> "", val |-> virtual_offset]
          : l \in loaded }

RECURSIVE BgzfReader_read(_, _)
\* read(size) that takes the fast path only for a request that ends before
\* the end of the buffer (< for <=)
BgzfReader_read_eager(self, size) ==
    IF size < 0
    THEN {[self |-> self, exc |-> "NotImplementedError", data |-> <<>>]}
    ELSE IF size = 0 THEN {[self |-> self, exc |-> "", data |-> <<>>]}
    ELSE IF self.within + size < BLen(self.buffer)
    THEN {[self |-> [self EXCEPT !.within = @ + size], exc |-> "",
           data |-> BSlice(self.buffer, self.within, self.within + size)]}
    ELSE LET data == BDrop(self.buffer, self.within)
             rest == size - BLen(data)
         IN  UNION {
               IF l.exc # ""
               THEN {[self |-> l.self, exc |-> l.exc, data |-> <<>>]}
               ELSE IF l.self.buffer = <<>>
               THEN {[self |-> l.self, exc |-> "", data |-> data]}
               ELSE IF rest # 0
               THEN {[o EXCEPT !.data = IF o.exc = "" THEN BCat(data, @)
                                        ELSE <<>>] :
                        o \in BgzfReader_read(l.self, rest)}
               ELSE {[self |-> l.self, exc |-> "", data |-> data]}
               : l \in _load_block(self, None) }

\* read(size): the set of possible [self, exc, data]
BgzfReader_read(self, size) ==
    IF size < 0
    THEN {[self |-> self, exc |-> "NotImplementedError", data |-> <<>>]}
    ELSE IF size = 0 THEN {[self |-> self, exc |-> "", data |-> <<>>]}
    ELSE IF self.within + size <= BLen(self.buffer)
    THEN {[self |-> [self EXCEPT !.within = @ + size], exc |-> "",
           data |-> BSlice(self.buffer, self.within, self.within + size)]}
    ELSE LET data == BDrop(self.buffer, self.within)
             rest == size - BLen(data)
         IN  UNION {
               IF l.exc # ""
               THEN {[self |-> l.self, exc |-> l.exc, data |-> <<>>]}
               ELSE IF l.self.buffer = <<>>
               THEN {[self |-> l.self, exc |-> "", data |-> data]}
               ELSE IF rest # 0
               THEN {[o EXCEPT !.data = IF o.exc = "" THEN BCat(data, @)
                                        ELSE <<>>] :
                        o \in BgzfReader_read(l.self, rest)}
               ELSE {[self |-> l.self, exc |-> "", data |-> data]}
               : l \in _load_block(self, None) }

\* readline(): the set of possible [self, exc, data]
RECURSIVE BgzfReader_readline(_)
BgzfReader_readline(self) ==
    LET i == BFind(self.buffer, _bytes_newline, self.within)
        data == BDrop(self.buffer, self.within)
    IN  IF i = -1
        THEN UNION {
               IF l.exc # ""
               THEN {[self |-> l.self, exc |-> l.exc, data |-> <<>>]}
               ELSE IF l.self.buffer = <<>>
               THEN {[self |-> l.self, exc |-> "", data |-> data]}
               ELSE {[o EXCEPT !.data = IF o.exc = "" THEN BCat(data, @)
                                        ELSE <<>>] :
                        o \in BgzfReader_readline(l.self)}
               : l \in _load_block(self, None) }
        ELSE IF i + 1 = BLen(self.buffer)
        THEN { IF l.exc # ""
               THEN [self |-> l.self, exc |-> l.exc, data |-> <<>>]
               ELSE [self |-> l.self, exc |-> "", data |-> data]
               : l \in _load_block(self, None) }
        ELSE {[self |-> [self EXCEPT !.within = i + 1], exc |-> "",
               data |-> BSlice(self.buffer, self.within, i + 1)]}

\* next(): readline(), and StopIteration for an empty line
BgzfReader_next(self) ==
    { IF o.exc = "" /\ o.data = <<>> THEN [o EXCEPT !.exc = "StopIteration"]
      ELSE o : o \in BgzfReader_readline(self) }

(***************************************************************************)
(* SpecVO: calls of make_virtual_offset and split_virtual_offset           *)
(***************************************************************************)
Idle == <<>>

InitVO == vo = NoCall /\ w = Idle /\ wh = Idle /\ r = Idle /\ rh = Idle

Make(c, u) == vo' = CallMake(c, u) /\ UNCHANGED <<w, wh, r, rh>>
Split(v) == vo' = CallSplit(v) /\ UNCHANGED <<w, wh, r, rh>>
SplitOfMake(c, u) == vo' = CallSplitOfMake(c, u) /\ UNCHANGED <<w, wh, r, rh>>
MakeOfSplit(v) == vo' = CallMakeOfSplit(v) /\ UNCHANGED <<w, wh, r, rh>>

NextVO ==
    \/ \E c \in COffsets, u \in UOffsets : Make(c, u)
    \/ \E v \in VOffsets : Split(v)
    \/ \E c \in COffsets, u \in UOffsets : SplitOfMake(c, u)
    \/ \E v \in VOffsets : MakeOfSplit(v)

SpecVO == InitVO /\ [][NextVO]_vars

(***************************************************************************)
(* SpecW: a BgzfWriter on a new file, and the calls made on it             *)
(***************************************************************************)
MaxWOps == 4        \* the number of calls made on the writer

Hello == <<<<104, 0, 1>>, <<101, 0, 1>>, <<108, 0, 2>>, <<111, 0, 1>>,
           <<10, 0, 1>>>>                       \* "hello\n"
WriteInputs ==
    { Hello,
      Rep(65, 65535),           \* one byte short of a block
      Rep(66, 65537),           \* one byte more than a block
      Rnd(0, 65503),            \* compresses to 65510 bytes: a block of 65536
      Rnd(0, 65510),            \* compresses to 65517 bytes
      Rnd(0, 65536),            \* a full block of incompressible bytes
      \* 65536 bytes that compress to 65511, the first 65535 of them to 65510
      BCat(BCat(Rnd(0, 65502), Rep(65, 33)), Rep(66, 1)) }

\* wh: nops, the calls made; passed, all the data passed to write, in order;
\* last and exc, the last call and what it raised; closes and flushes, the
\* calls of close and of flush so far; presize and preclosed, the length of
\* the sink and whether it was closed when the last call was made; val, what
\* the last call returned when it was tell
InitW ==
    /\ w = BgzfWriter_init
    /\ wh = [nops |-> 0, passed |-> <<>>, last |-> "init", exc |-> "",
             closes |-> 0, flushes |-> 0, presize |-> 0, preclosed |-> FALSE,
             val |-> Zero]
    /\ vo = NoCall /\ r = Idle /\ rh = Idle

Called(op, out) ==
    [wh EXCEPT !.nops = @ + 1, !.last = op, !.exc = out.exc,
               !.presize = TLen(w.handle.data),
               !.preclosed = w.handle.closed,
               !.val = Zero]

WWrite(data) ==
    /\ wh.nops < MaxWOps
    /\ \E out \in {BgzfWriter_write(w, data)} :
           /\ w' = out.self
           /\ wh' = [Called("write", out) EXCEPT !.passed = BCat(@, data)]
    /\ UNCHANGED <<vo, r, rh>>

WFlush ==
    /\ wh.nops < MaxWOps
    /\ \E out \in {BgzfWriter_flush(w)} :
           /\ w' = out.self
           /\ wh' = [Called("flush", out) EXCEPT !.flushes = @ + 1]
    /\ UNCHANGED <<vo, r, rh>>

WClose ==
    /\ wh.nops < MaxWOps
    /\ \E out \in {BgzfWriter_close(w)} :
           /\ w' = out.self
           /\ wh' = [Called("close", out) EXCEPT !.closes = @ + 1]
    /\ UNCHANGED <<vo, r, rh>>

WTell ==
    /\ wh.nops < MaxWOps
    /\ \E out \in {BgzfWriter_tell(w)} :
           /\ w' = out.self
           /\ wh' = [Called("tell", out) EXCEPT !.val = out.val]
    /\ UNCHANGED <<vo, r, rh>>

NextW ==
    \/ \E data \in WriteInputs : WWrite(data)
    \/ WFlush
    \/ WClose
    \/ WTell

SpecW == InitW /\ [][NextW]_vars

(***************************************************************************)
(* SpecR: a BgzfReader on a BGZF file, and the calls made on it            *)
(***************************************************************************)
MaxROps == 2        \* the number of calls that can move the reader

\* the files read: what a BgzfWriter leaves after these calls
\* (<<"w", data>> for write(data), <<"f", <<>>>> for flush, <<"c", <<>>>> for close)
RECURSIVE RunWriter(_, _, _)
RunWriter(self, ops, i) ==
    IF i > Len(ops) THEN self
    ELSE RunWriter(
            CASE ops[i][1] = "w" -> BgzfWriter_write(self, ops[i][2]).self
              [] ops[i][1] = "f" -> BgzfWriter_flush(self).self
              [] OTHER -> BgzfWriter_close(self).self,
            ops, i + 1)

RECURSIVE Passed(_, _)
Passed(ops, i) ==
    IF i > Len(ops) THEN <<>>
    ELSE BCat(IF ops[i][1] = "w" THEN ops[i][2] ELSE <<>>, Passed(ops, i + 1))

FileOps ==
    { \* blocks of 65536, 65536 and 7 bytes, then the EOF block; the first
      \* block ends in a newline
      << <<"w", BCat(Rep(65, 65535), Rep(10, 1))>>, <<"w", Rep(66, 65537)>>,
         <<"w", Hello>>, <<"c", <<>>>> >>,
      \* an incompressible block that is 65536 bytes long in the file, an
      \* empty block, a block of 6 bytes with no final newline, then the
      \* EOF block
      << <<"w", Rnd(0, 65503)>>, <<"f", <<>>>>, <<"f", <<>>>>,
         <<"w", BCat(BCat(Rep(67, 3), Rep(10, 1)), Rep(68, 2))>>,
         <<"c", <<>>>> >> }

MaxCaches == {1, 2}
ReadSizes == {-1, 0, 6, 65536, 70000, 140000}

\* the start offset, raw length, data start and data of each block of a
\* file (found by BgzfBlocks)
Layout(ts) == BgzfBlocks(ts).blocks

\* the virtual offsets sought in a file of size bytes: the start of each
\* block, two bytes into the first and into the last block, block offsets
\* at which no block starts (inside the first block, at and after the end
\* of the file), the end of each block that is neither empty nor of 65536
\* bytes, and one byte after the end of each block of fewer than 100 bytes
SeekInputs(blocks, size) ==
    LET at(c, u) == PyOr(PyShl16(Py(c)), Py(u))
    IN  {at(blocks[i].start_offset, 0) : i \in 1..Len(blocks)}
        \cup {at(blocks[1].start_offset, 2),
              at(blocks[Len(blocks)].start_offset, 2),
              at(1, 0), at(size, 0), at(size + 5, 0)}
        \cup {at(blocks[i].start_offset, BLen(blocks[i].data)) :
                 i \in {j \in 1..Len(blocks) :
                           BLen(blocks[j].data) \in 1..65535}}
        \cup {at(blocks[i].start_offset, BLen(blocks[i].data) + 1) :
                 i \in {j \in 1..Len(blocks) :
                           BLen(blocks[j].data) \in 1..99}}

NoMark == [set |-> FALSE, k |-> 0, v |-> Zero]

\* rh: content, the decompressed stream of the file; blocks, its blocks as
\* BgzfBlocks lists them; seeks, the virtual offsets sought in it; nops, the
\* calls made
\* that can move the reader; last, arg, argv, exc, data, val: the last call,
\* its argument (a size or a virtual offset), what it raised and what it
\* returned (a string or an integer); pure: only read and tell were called
\* so far; k: the bytes returned by read, readline and next so far; mark:
\* the value v that tell returned after k bytes were read from the start;
\* at: that k when the reader has just been moved by seek(v), else -1;
\* was: at before the last call
InitR ==
    /\ \E ops \in FileOps, max_cache \in MaxCaches :
       \E file \in {RunWriter(BgzfWriter_init, ops, 1).handle.data} :
       \E blocks \in {Layout(file)} :
          /\ r \in {o.self :
                      o \in BgzfReader_init(<<file>>, <<"r">>, <<>>,
                                             max_cache)}
          /\ rh = [content |-> Passed(ops, 1),
                   seeks |-> SeekInputs(blocks, TLen(file)),
                   blocks |-> blocks,
                   nops |-> 0, last |-> "init",
                   arg |-> 0, argv |-> Zero, exc |-> "", data |-> <<>>,
                   val |-> Zero, pure |-> TRUE, k |-> 0, mark |-> NoMark,
                   at |-> -1, was |-> -1]
    /\ vo = NoCall /\ w = Idle /\ wh = Idle

RRead(size) ==
    /\ size > 0 => rh.nops < MaxROps
    /\ \E o \in BgzfReader_read(r, size) :
          /\ r' = o.self
          /\ rh' = [rh EXCEPT !.nops = IF size > 0 THEN @ + 1 ELSE @,
                              !.last = "read", !.arg = size, !.argv = Zero,
                              !.exc = o.exc, !.data = o.data, !.val = Zero,
                              !.pure = @ /\ (o.exc = "" \/ size < 0),
                              !.k = @ + BLen(o.data),
                              !.was = rh.at,
                              !.at = IF size > 0 THEN -1 ELSE @]
    /\ UNCHANGED <<vo, w, wh>>

RReadline ==
    /\ rh.nops < MaxROps
    /\ \E o \in BgzfReader_readline(r) :
          /\ r' = o.self
          /\ rh' = [rh EXCEPT !.nops = @ + 1,
                              !.last = "readline", !.arg = 0, !.argv = Zero,
                              !.exc = o.exc, !.data = o.data, !.val = Zero,
                              !.pure = FALSE, !.k = @ + BLen(o.data),
                              !.was = rh.at, !.at = -1]
    /\ UNCHANGED <<vo, w, wh>>

RNext ==
    /\ rh.nops < MaxROps
    /\ \E o \in BgzfReader_next(r) :
          /\ r' = o.self
          /\ rh' = [rh EXCEPT !.nops = @ + 1,
                              !.last = "next", !.arg = 0, !.argv = Zero,
                              !.exc = o.exc, !.data = o.data, !.val = Zero,
                              !.pure = FALSE, !.k = @ + BLen(o.data),
                              !.was = rh.at, !.at = -1]
    /\ UNCHANGED <<vo, w, wh>>

RTell ==
    /\ r' = r
    /\ rh' = [rh EXCEPT !.last = "tell", !.arg = 0, !.argv = Zero,
                        !.exc = "", !.data = <<>>,
                        !.val = BgzfReader_tell(r),
                        !.mark = IF rh.pure
                                 THEN [set |-> TRUE, k |-> rh.k,
                                       v |-> BgzfReader_tell(r)]
                                 ELSE @,
                        !.was = rh.at]
    /\ UNCHANGED <<vo, w, wh>>

RSeek(virtual_offset) ==
    /\ rh.nops < MaxROps
    /\ \E o \in BgzfReader_seek(r, virtual_offset) :
          /\ r' = o.self
          /\ rh' = [rh EXCEPT !.nops = @ + 1,
                              !.last = "seek", !.arg = 0,
                              !.argv = virtual_offset,
                              !.exc = o.exc, !.data = <<>>, !.val = o.val,
                              !.pure = FALSE,
                              !.was = rh.at,
                              !.at = IF rh.mark.set /\ virtual_offset = rh.mark.v
                                        /\ o.exc = ""
                                     THEN rh.mark.k ELSE -1]
    /\ UNCHANGED <<vo, w, wh>>

NextR ==
    \/ \E size \in ReadSizes : RRead(size)
    \/ RReadline
    \/ RNext
    \/ RTell
    \/ \E v \in rh.seeks : RSeek(v)
    \/ rh.mark.set /\ RSeek(rh.mark.v)

SpecR == InitR /\ [][NextR]_vars

(***************************************************************************)
(* Properties of the virtual-offset functions (under SpecVO)               *)
(***************************************************************************)
InDomain(c, u) ==
    /\ ~PyLess(c, Zero) /\ PyLess(c, Two48)
    /\ ~PyLess(u, Zero) /\ PyLess(u, Two16)

\* C4: on the domain 0 <= c < 2**48, 0 <= u < 2**16 the split of
\* make_virtual_offset(c, u) is (c, u), and for 0 <= v < 2**64
\* make_virtual_offset of the split of v is v.
C4_MakeSplitInverse ==
    /\ (vo.op = "split_make" /\ InDomain(vo.c, vo.u))
          => (vo.exc = "" /\ vo.pair = <<vo.c, vo.u>>)
    /\ (vo.op = "make_split" /\ ~PyLess(vo.v, Zero) /\ PyLess(vo.v, Two64))
          => (vo.exc = "" /\ vo.val = vo.v)

C4_Witness ==
    /\ vo.op = "split_make"
    /\ vo.c = PyMag(<<65535, 65535, 65535>>) /\ vo.u = Py(65535)
    /\ vo.val = PyMag(<<65535, 65535, 65535, 65535>>)

\* C5: make_virtual_offset(c, u) raises ValueError exactly when c < 0,
\* c >= 2**48, u < 0 or u >= 2**16, and otherwise returns c * 2**16 + u;
\* make(0, 65536) and make(2**48, 0) fail, make(100000, 10) is 6553600010.
C5_MakeRange ==
    vo.op = "make" =>
        /\ (vo.exc = "ValueError") <=> ~InDomain(vo.c, vo.u)
        /\ (vo.exc = "") <=> InDomain(vo.c, vo.u)
        /\ vo.exc = "" => vo.val = PyMag(<<Digit(vo.u.mag, 1)>> \o vo.c.mag)
        /\ (vo.c = Py(0) /\ vo.u = Py(65536)) => vo.exc = "ValueError"
        /\ (vo.c = Two48 /\ vo.u = Py(0)) => vo.exc = "ValueError"
        /\ (vo.c = Py(100000) /\ vo.u = Py(10))
              => (vo.exc = "" /\ vo.val = PyMag(<<10, 34464, 1>>))

C5_Witness ==
    vo.op = "make" /\ vo.c = Py(0) /\ vo.u = Py(65536) /\ vo.exc = "ValueError"

(***************************************************************************)
(* SpecNew: the construction of a BgzfReader                               *)
(***************************************************************************)
InitModes == {<<>>, <<"r">>, <<"rb">>, <<"w">>}
HandleModes == {"rb", "RB", "r"}
InitCaches == {0, 1, 2}

\* rh: last, "none" before the call and "init" after it; named and given,
\* whether filename and fileobj were passed; mode and max_cache, as passed;
\* hmode and pos, the mode and the position of the open file passed as
\* fileobj; starts, the offsets at which the blocks of the file start;
\* exc, what __init__ raised
InitNew ==
    /\ r = NoReader
    /\ rh = [last |-> "none", named |-> FALSE, given |-> FALSE, mode |-> <<>>,
             max_cache |-> 0, hmode |-> "", pos |-> 0, starts |-> {},
             exc |-> ""]
    /\ vo = NoCall /\ w = Idle /\ wh = Idle

\* BgzfReader(filename, mode, fileobj, max_cache), the file holding ts
RInit(ts, starts, named, mode, given, hmode, pos, max_cache) ==
    /\ rh.last = "none"
    /\ \E o \in BgzfReader_init(
                    IF named THEN <<ts>> ELSE <<>>, mode,
                    IF given
                    THEN <<[h |-> [data |-> ts, pos |-> pos, closed |-> FALSE],
                            mode |-> hmode]>>
                    ELSE <<>>,
                    max_cache) :
          /\ r' = o.self
          /\ rh' = [last |-> "init", named |-> named, given |-> given,
                    mode |-> mode, max_cache |-> max_cache,
                    hmode |-> IF given THEN hmode ELSE "",
                    pos |-> IF given THEN pos ELSE 0,
                    starts |-> starts, exc |-> o.exc]
    /\ UNCHANGED <<vo, w, wh>>

NextNew ==
    \E ops \in FileOps :
    \E file \in {RunWriter(BgzfWriter_init, ops, 1).handle.data} :
    \E blocks \in {Layout(file)} :
    \E starts \in {{blocks[i].start_offset : i \in 1..Len(blocks)}} :
    \E named \in BOOLEAN, given \in BOOLEAN, mode \in InitModes,
       hmode \in HandleModes, pos \in starts \cup {1},
       max_cache \in InitCaches :
          RInit(file, starts, named, mode, given, hmode, pos, max_cache)

SpecNew == InitNew /\ [][NextNew]_vars

(***************************************************************************)
(* SpecIter: a for loop over a BgzfReader, from the start of a file        *)
(***************************************************************************)
MaxIterOps == 3     \* the most calls that wrote a file, before its close

IterOps ==
    { <<"w", Hello>>, <<"w", Rep(66, 65537)>>,
      <<"w", BCat(Rep(65, 65535), Rep(10, 1))>>, <<"f", <<>>>> }

\* the files iterated over: those of FileOps, and what a BgzfWriter leaves
\* after up to MaxIterOps calls of IterOps and a close
IterFiles ==
    FileOps
    \cup UNION { {ops \o << <<"c", <<>>>> >> : ops \in [1..n -> IterOps]} :
                 n \in 1..MaxIterOps }

\* rh: blocks, the blocks of the file as BgzfBlocks lists them;
\* lines, what next has returned so far; done, next has raised; exc, what
\* the last call of next raised
InitIter ==
    /\ \E ops \in IterFiles, max_cache \in MaxCaches :
       \E file \in {RunWriter(BgzfWriter_init, ops, 1).handle.data} :
          /\ r \in {o.self :
                      o \in BgzfReader_init(<<file>>, <<"r">>, <<>>,
                                             max_cache)}
          /\ rh = [blocks |-> Layout(file), lines |-> <<>>,
                   done |-> FALSE, exc |-> ""]
    /\ vo = NoCall /\ w = Idle /\ wh = Idle

\* one pass of the loop: line = next()
INext ==
    /\ ~rh.done
    /\ \E o \in BgzfReader_next(r) :
          /\ r' = o.self
          /\ rh' = [rh EXCEPT !.lines = IF o.exc = "" THEN Append(@, o.data)
                                        ELSE @,
                              !.done = o.exc # "",
                              !.exc = o.exc]
    /\ UNCHANGED <<vo, w, wh>>

NextIter == INext

SpecIter == InitIter /\ [][NextIter]_vars

(***************************************************************************)
(* SpecPair: two BgzfReaders on the same file, one with max_cache = 1 and  *)
(* one with a larger max_cache, and the same calls made on both            *)
(***************************************************************************)
MaxPairOps == 3     \* the number of calls that can move the readers
LargerCaches == {2, 3}
PairReadSizes == {0, 6, 65536, 70000}
Readers == {"one", "more"}

\* what a call returned: exc, and data (read, readline) or val (seek, tell)
Result(exc, data, val) == [exc |-> exc, data |-> data, val |-> val]
NoResult == Result("", <<>>, Zero)

\* r: the reader with max_cache = 1 (one) and the other reader (more);
\* rh: blocks and seeks as in SpecR; nops, the calls made that can move the
\* readers; last, arg and argv, the last call and its argument; one and
\* more, what it returned on each reader
InitPair ==
    /\ \E ops \in FileOps, max_cache \in LargerCaches :
       \E file \in {RunWriter(BgzfWriter_init, ops, 1).handle.data} :
       \E blocks \in {Layout(file)} :
       \E made \in {[x \in Readers |->
                       BgzfReader_init(<<file>>, <<"r">>, <<>>,
                                       IF x = "one" THEN 1 ELSE max_cache)]} :
          /\ r \in {[one |-> o1.self, more |-> o2.self] :
                      o1 \in made.one, o2 \in made.more}
          /\ rh = [blocks |-> blocks,
                   seeks |-> SeekInputs(blocks, TLen(file)),
                   nops |-> 0, last |-> "init", arg |-> 0, argv |-> Zero,
                   one |-> NoResult, more |-> NoResult]
    /\ vo = NoCall /\ w = Idle /\ wh = Idle

\* the call has returned o1 on the one reader and o2 on the other
Paired(op, arg, argv, moves, o1, o2) ==
    /\ r' = [one |-> o1.self, more |-> o2.self]
    /\ rh' = [rh EXCEPT !.nops = IF moves THEN @ + 1 ELSE @,
                        !.last = op, !.arg = arg, !.argv = argv,
                        !.one = Result(o1.exc, o1.data, o1.val),
                        !.more = Result(o2.exc, o2.data, o2.val)]
    /\ UNCHANGED <<vo, w, wh>>

PRead(size) ==
    /\ size > 0 => rh.nops < MaxPairOps
    /\ \E os \in {[x \in Readers |->
                     {[self |-> o.self, exc |-> o.exc, data |-> o.data,
                       val |-> Zero] : o \in BgzfReader_read(r[x], size)}]} :
       \E o1 \in os.one, o2 \in os.more :
          Paired("read", size, Zero, size > 0, o1, o2)

PReadline ==
    /\ rh.nops < MaxPairOps
    /\ \E os \in {[x \in Readers |->
                     {[self |-> o.self, exc |-> o.exc, data |-> o.data,
                       val |-> Zero] : o \in BgzfReader_readline(r[x])}]} :
       \E o1 \in os.one, o2 \in os.more :
          Paired("readline", 0, Zero, TRUE, o1, o2)

PTell ==
    /\ rh.last # "tell"
    /\ \E os \in {[x \in Readers |->
                     [self |-> r[x], exc |-> "", data |-> <<>>,
                      val |-> BgzfReader_tell(r[x])]]} :
          Paired("tell", 0, Zero, FALSE, os.one, os.more)

PSeek(virtual_offset) ==
    /\ rh.nops < MaxPairOps
    /\ \E os \in {[x \in Readers |->
                     {[self |-> o.self, exc |-> o.exc, data |-> <<>>,
                       val |-> o.val] :
                        o \in BgzfReader_seek(r[x], virtual_offset)}]} :
       \E o1 \in os.one, o2 \in os.more :
          Paired("seek", 0, virtual_offset, TRUE, o1, o2)

NextPair ==
    \/ \E size \in PairReadSizes : PRead(size)
    \/ PReadline
    \/ PTell
    \/ \E v \in rh.seeks : PSeek(v)

SpecPair == InitPair /\ [][NextPair]_vars

(***************************************************************************)
(* SpecSeq: read and readline calls on a BgzfReader, and no seek           *)
(***************************************************************************)
MaxSeqOps == 3      \* the number of calls made on the reader

\* the files of FileOps, and a file that starts with two empty blocks
SeqFiles ==
    FileOps
    \cup { << <<"f", <<>>>>, <<"f", <<>>>>, <<"w", Hello>>, <<"c", <<>>>> >> }

SeqReadSizes == {6, 65536, 140000}

\* rh: blocks, the blocks of the file; nops, the calls made; last, arg, exc
\* and data, the last call, its argument, what it raised and what it
\* returned; ended, a read(n) with n > 0 has returned an empty string
InitSeq ==
    /\ \E ops \in SeqFiles, max_cache \in MaxCaches :
       \E file \in {RunWriter(BgzfWriter_init, ops, 1).handle.data} :
          /\ r \in {o.self :
                      o \in BgzfReader_init(<<file>>, <<"r">>, <<>>,
                                             max_cache)}
          /\ rh = [blocks |-> Layout(file), nops |-> 0, last |-> "init",
                   arg |-> 0, exc |-> "", data |-> <<>>, ended |-> FALSE]
    /\ vo = NoCall /\ w = Idle /\ wh = Idle

SRead(size) ==
    /\ rh.nops < MaxSeqOps
    /\ \E o \in BgzfReader_read(r, size) :
          /\ r' = o.self
          /\ rh' = [rh EXCEPT !.nops = @ + 1, !.last = "read", !.arg = size,
                              !.exc = o.exc, !.data = o.data,
                              !.ended = @ \/ (size > 0 /\ o.exc = ""
                                              /\ o.data = <<>>)]
    /\ UNCHANGED <<vo, w, wh>>

SReadline ==
    /\ rh.nops < MaxSeqOps
    /\ \E o \in BgzfReader_readline(r) :
          /\ r' = o.self
          /\ rh' = [rh EXCEPT !.nops = @ + 1, !.last = "readline",
                              !.arg = 0, !.exc = o.exc, !.data = o.data]
    /\ UNCHANGED <<vo, w, wh>>

NextSeq ==
    \/ \E size \in SeqReadSizes : SRead(size)
    \/ SReadline

SpecSeq == InitSeq /\ [][NextSeq]_vars

(***************************************************************************)
(* SpecTrip: write and flush calls on a BgzfWriter, close, then a          *)
(* BgzfReader on the file is read until read returns an empty string       *)
(***************************************************************************)
MaxTripWrites == 3  \* the number of write and flush calls
MaxTripReads == 4   \* the number of read calls

TripInputs == {Hello, Rep(66, 65537)}
TripReadSizes == {6, 65536}

\* wh: nops, the write and flush calls made; passed, all the data passed to
\* write, in order; exc, what the last call on the writer raised.
\* rh: phase, "write" until close, "closed" until the reader is made, then
\* "read"; got, all the data returned by read, in order; nreads, the read
\* calls made; ended, a read has returned an empty string; exc, what the
\* last call on the reader raised
InitTrip ==
    /\ w = BgzfWriter_init
    /\ wh = [nops |-> 0, passed |-> <<>>, exc |-> ""]
    /\ r = Idle
    /\ rh = [phase |-> "write", got |-> <<>>, nreads |-> 0, ended |-> FALSE,
             exc |-> ""]
    /\ vo = NoCall

TWrite(data) ==
    /\ rh.phase = "write" /\ wh.nops < MaxTripWrites
    /\ \E out \in {BgzfWriter_write(w, data)} :
           /\ w' = out.self
           /\ wh' = [nops |-> wh.nops + 1, passed |-> BCat(wh.passed, data),
                     exc |-> out.exc]
    /\ UNCHANGED <<vo, r, rh>>

TFlush ==
    /\ rh.phase = "write" /\ wh.nops < MaxTripWrites
    /\ \E out \in {BgzfWriter_flush(w)} :
           /\ w' = out.self
           /\ wh' = [wh EXCEPT !.nops = @ + 1, !.exc = out.exc]
    /\ UNCHANGED <<vo, r, rh>>

TClose ==
    /\ rh.phase = "write"
    /\ \E out \in {BgzfWriter_close(w)} :
           /\ w' = out.self
           /\ wh' = [wh EXCEPT !.exc = out.exc]
    /\ rh' = [rh EXCEPT !.phase = "closed"]
    /\ UNCHANGED <<vo, r>>

\* BgzfReader(filename) on the file written, max_cache = 100
TOpen ==
    /\ rh.phase = "closed"
    /\ \E o \in BgzfReader_init(<<w.handle.data>>, <<"r">>, <<>>, 100) :
          /\ r' = o.self
          /\ rh' = [rh EXCEPT !.phase = "read", !.exc = o.exc]
    /\ UNCHANGED <<vo, w, wh>>

TRead(size) ==
    /\ rh.phase = "read" /\ rh.exc = "" /\ ~rh.ended
    /\ rh.nreads < MaxTripReads
    /\ \E o \in BgzfReader_read(r, size) :
          /\ r' = o.self
          /\ rh' = [rh EXCEPT !.got = BCat(@, o.data), !.nreads = @ + 1,
                              !.exc = o.exc,
                              !.ended = o.exc = "" /\ o.data = <<>>]
    /\ UNCHANGED <<vo, w, wh>>

NextTrip ==
    \/ \E data \in TripInputs : TWrite(data)
    \/ TFlush
    \/ TClose
    \/ TOpen
    \/ \E size \in TripReadSizes : TRead(size)

SpecTrip == InitTrip /\ [][NextTrip]_vars

(***************************************************************************)
(* Properties of the writer (under SpecW)                                  *)
(***************************************************************************)
SinkBlocks == BgzfBlocks(w.handle.data)

RECURSIVE CatData(_, _)
CatData(blocks, i) ==
    IF i > Len(blocks) THEN <<>>
    ELSE BCat(blocks[i].data, CatData(blocks, i + 1))

EndsWithEof(ts) ==
    TLen(ts) >= 28 /\ ReadAt(ts, 1, TLen(ts) - 28, 28) = _bgzf_eof

\* the blocks of the sink decode, and the last of them is the EOF sentinel
DecodesToEof(b) ==
    /\ b.exc = ""
    /\ Len(b.blocks) >= 1
    /\ b.blocks[Len(b.blocks)].block_length = 28
    /\ b.blocks[Len(b.blocks)].data = <<>>
    /\ EndsWithEof(w.handle.data)

\* only write calls (and tell), then one close
WritesThenClose == wh.last = "close" /\ wh.closes = 1 /\ wh.flushes = 0

NothingRefused == \A i \in 1..Len(w.log) : w.log[i].wrote > 0

\* C1: when a byte sequence is passed to write in any pieces and the writer
\* is then closed, the blocks in the sink decode, in order, to exactly that
\* sequence, and the last block is the 28-byte EOF sentinel.
C1_RoundTrip ==
    WritesThenClose =>
        /\ DecodesToEof(SinkBlocks)
        /\ CatData(SinkBlocks.blocks, 1) = wh.passed

\* the same where no call of _write_block refused its block
C1_RoundTripUnlessRefused ==
    (WritesThenClose /\ NothingRefused) =>
        /\ DecodesToEof(SinkBlocks)
        /\ CatData(SinkBlocks.blocks, 1) = wh.passed

\* ISIZE of each block the sink must hold for n bytes written
ExpectedSizes(n) ==
    [i \in 1..(n \div 65536) |-> 65536]
    \o (IF n % 65536 # 0 THEN <<n % 65536>> ELSE <<>>)
    \o <<0>>

ISizes(blocks) == [i \in 1..Len(blocks) |-> BLen(blocks[i].data)]

\* C6: n bytes passed to write (no flush) and then close leave in the sink
\* floor(n / 65536) blocks of ISIZE 65536, then one of ISIZE n mod 65536 if
\* that is not zero, then the EOF sentinel, and nothing else.
C6_BlockSplit ==
    WritesThenClose =>
        /\ DecodesToEof(SinkBlocks)
        /\ ISizes(SinkBlocks.blocks) = ExpectedSizes(BLen(wh.passed))

\* the same where no call of _write_block refused its block
C6_BlockSplitUnlessRefused ==
    (WritesThenClose /\ NothingRefused) =>
        /\ DecodesToEof(SinkBlocks)
        /\ ISizes(SinkBlocks.blocks) = ExpectedSizes(BLen(wh.passed))

RECURSIVE Wrote(_, _)
Wrote(log, i) == IF i > Len(log) THEN 0 ELSE log[i].wrote + Wrote(log, i + 1)

\* C7: _write_block adds a block to the sink only when the compressed
\* payload and the 26 bytes around it fit in 65536 bytes; otherwise it fails
\* and adds nothing, so every block of the sink is at most 65536 bytes long.
C7_BlockFits ==
    /\ \A i \in 1..Len(w.log) :
          /\ w.log[i].wrote > 0 =>
                (w.log[i].wrote = w.log[i].csize + 26
                 /\ w.log[i].csize + 26 <= 65536)
          /\ w.log[i].csize + 26 > 65536 => w.log[i].wrote = 0
    /\ TLen(w.handle.data) = Wrote(w.log, 1) + 28 * w.neof
    /\ LET fits(b) ==
               /\ b.exc = ""
               /\ \A i \in 1..Len(b.blocks) :
                     b.blocks[i].block_length <= 65536
       IN  fits(SinkBlocks)

\* a payload of 65517 bytes was refused and one of 65510 bytes was written
C7_Witness ==
    /\ \E i \in 1..Len(w.log) :
          w.log[i].csize = 65517 /\ w.log[i].wrote = 0
    /\ \E i \in 1..Len(w.log) :
          w.log[i].csize = 65510 /\ w.log[i].wrote = 65536

\* C8: close writes the EOF sentinel at most once; a second close adds
\* nothing to the sink.
C8_OneSentinel ==
    /\ w.neof <= 1
    /\ TLen(w.handle.data) = Wrote(w.log, 1) + 28 * w.neof
    /\ (wh.last = "close" /\ wh.preclosed)
          => TLen(w.handle.data) = wh.presize

C8_Witness ==
    /\ wh.last = "close" /\ wh.preclosed /\ wh.closes = 2
    /\ w.neof = 1 /\ EndsWithEof(w.handle.data)

\* C9: once close has returned, every write and every flush is rejected
\* with an error and adds nothing to the sink.
C9_ClosedRejects ==
    (wh.preclosed /\ wh.last \in {"write", "flush"})
        => (wh.exc # "" /\ TLen(w.handle.data) = wh.presize)

(***************************************************************************)
(* Properties of the reader (under SpecR)                                  *)
(***************************************************************************)
VOffset(c, u) == PyOr(PyShl16(Py(c)), Py(u))

\* C2: if tell() returned v after k bytes were read from the start, then
\* seek(v) succeeds, whatever was called in between, and a read(m) that
\* follows returns bytes k .. k+m-1 of the decompressed stream (fewer only
\* at its end).
C2_SeekThenRead ==
    /\ (rh.last = "seek" /\ rh.mark.set /\ rh.argv = rh.mark.v)
          => rh.exc = ""
    /\ (rh.last = "read" /\ rh.was >= 0 /\ rh.arg >= 0)
          => (rh.exc = ""
              /\ rh.data = BSlice(rh.content, rh.was, rh.was + rh.arg))

\* no block of the file but the last is empty
NoEmptyBlockInside ==
    LET blocks == rh.blocks
    IN  \A i \in 1..(Len(blocks) - 1) : blocks[i].data # <<>>

\* the same for the files in which only the last block is empty
C2_SeekThenReadNoEmptyBlock == NoEmptyBlockInside => C2_SeekThenRead

\* the virtual offsets of decompressed position k: in a block that holds
\* byte k, or in an empty block at k
OffsetsOf(blocks, k) ==
    { VOffset(blocks[i].start_offset, k - blocks[i].data_start) :
        i \in { j \in 1..Len(blocks) :
                  /\ blocks[j].data_start <= k
                  /\ \/ k - blocks[j].data_start < BLen(blocks[j].data)
                     \/ (blocks[j].data = <<>> /\ k = blocks[j].data_start) } }

\* C3 as claimed: after k bytes were read from the start by read calls,
\* tell() is (s << 16) | (k - d) for a block of the file, starting at s and
\* holding the stream from d on, that holds position k; at the end of a
\* block that is not empty it is the next block's offset, never k - d equal
\* to the block's length.
C3_TellIsBlockOfPosition ==
    (rh.last = "tell" /\ rh.pure)
        => rh.val \in OffsetsOf(rh.blocks, rh.k)

\* C3: the same, where at the end of the stream tell() may also be the
\* length of the file shifted left by 16: the offset at which a read that
\* found the last block empty looked for a further block.
C3_TellIsBlockOfPositionOrEnd ==
    (rh.last = "tell" /\ rh.pure)
        => rh.val \in OffsetsOf(rh.blocks, rh.k)
                      \cup (IF rh.k = BLen(rh.content)
                            THEN {VOffset(TLen(r.handle.data), 0)} ELSE {})

\* tell() after 65536 bytes, the whole of a first block, were read
C3_Witness ==
    /\ rh.last = "tell" /\ rh.pure /\ rh.k = 65536
    /\ rh.blocks[1].data_start = 0
    /\ BLen(rh.blocks[1].data) = 65536
    /\ rh.val = VOffset(rh.blocks[2].start_offset, 0)

\* C10: after a call that returned, 0 <= within <= len(buffer), and tell()
\* is in [0, 2**64): it splits into the start of the current block and
\* within, when within is inside the buffer or the buffer is empty, and into
\* the start of the next block and 0 at the end of a buffer.
C10_WithinAndTell ==
    rh.exc = "" =>
        /\ 0 <= r.within /\ r.within <= BLen(r.buffer)
        /\ LET t == BgzfReader_tell(r)
               p == split_virtual_offset(t)
           IN  /\ ~PyLess(t, Zero) /\ PyLess(t, Two64)
               /\ rh.last = "tell" => rh.val = t
               /\ \/ /\ p[1] = Py(r.block_start) /\ p[2] = Py(r.within)
                     /\ (r.within < BLen(r.buffer) \/ r.buffer = <<>>)
                  \/ /\ p[1] = Py(r.block_start + r.block_raw) /\ p[2] = Zero
                     /\ r.within = BLen(r.buffer)

\* a read has ended at the end of a block of 65536 bytes
C10_Witness ==
    /\ rh.exc = "" /\ rh.last = "read"
    /\ r.within = 65536 /\ BLen(r.buffer) = 65536

\* the blocks of the file that start at file offset c
BlocksAt(c) == {i \in 1..Len(rh.blocks) : rh.blocks[i].start_offset = c}

SoughtBlock == PyVal(PyShr16(rh.argv))
SoughtWithin == PyVal(PyXor(rh.argv, PyShl16(PyShr16(rh.argv))))

\* C11: seek(v), with v = (coff << 16) | uoff and coff the start
\* of a block, returns v and sets within_block to uoff whenever
\* uoff <= len(buffer) of that block, and raises ValueError only when
\* uoff > len(buffer).
C11_SeekUpToLength ==
    rh.last = "seek" =>
        \A i \in BlocksAt(SoughtBlock) :
            IF SoughtWithin <= BLen(rh.blocks[i].data)
            THEN /\ rh.exc = "" /\ rh.val = rh.argv
                 /\ r.block_start = SoughtBlock /\ r.within = SoughtWithin
            ELSE rh.exc = "ValueError"

\* C12: a read(n) that the current block can satisfy (n >= 0 and
\* within_block + n <= len(buffer)) returns exactly the n bytes of the buffer
\* from within_block, advances within_block by n and leaves block_start,
\* block_raw_length, buffer, the cache and the handle unchanged; for n = 0
\* nothing changes.
C12_ReadWithinBlock ==
    [][(/\ rh'.last = "read"
        /\ rh'.arg >= 0 /\ r.within + rh'.arg <= BLen(r.buffer))
       => /\ rh'.exc = ""
          /\ BLen(rh'.data) = rh'.arg
          /\ rh'.data = BSlice(r.buffer, r.within, r.within + rh'.arg)
          /\ r' = [r EXCEPT !.within = @ + rh'.arg]
          /\ (rh'.arg = 0 => r' = r)]_vars

\* a read(65536) of a whole first block of 65536 bytes returned it and left
\* the reader at the end of that block, the handle still after the block
C12_Witness ==
    /\ rh.nops = 1 /\ rh.last = "read" /\ rh.arg = 65536 /\ rh.exc = ""
    /\ BLen(rh.data) = 65536 /\ r.within = 65536 /\ r.block_start = 0
    /\ BLen(r.buffer) = 65536 /\ r.handle.pos = r.block_raw

\* C13: tell() on an open writer returns
\* make_virtual_offset(p, len(buffer)), p the position of the sink.
C13_WriterTell ==
    (wh.last = "tell" /\ ~wh.preclosed) =>
        /\ wh.exc = ""
        /\ wh.val = make_virtual_offset(Py(w.handle.pos),
                                        Py(BLen(w.buffer))).val

\* the position of the reader in the decompressed stream: the start of the
\* current block plus within_block (the end of the stream when the reader is
\* past the last block)
StreamPos ==
    IF BlocksAt(r.block_start) = {} THEN BLen(rh.content)
    ELSE rh.blocks[CHOOSE i \in BlocksAt(r.block_start) : TRUE].data_start
         + r.within

\* the line of the stream that starts at position k: through the next
\* newline, or to the end of the stream when there is none
LineAt(k) ==
    LET i == BFind(rh.content, _bytes_newline, k)
    IN  IF i = -1 THEN BDrop(rh.content, k) ELSE BSlice(rh.content, k, i + 1)

\* the reader is at a position of the file: on one of its blocks with
\* within_block inside the buffer or at its end, or past the last block
AtPosition ==
    \/ \E i \in BlocksAt(r.block_start) :
          /\ r.buffer = rh.blocks[i].data
          /\ r.block_raw = rh.blocks[i].block_length
          /\ r.within <= BLen(r.buffer)
    \/ r.block_start = TLen(r.handle.data) /\ r.buffer = <<>> /\ r.within = 0

\* the next newline, seen from within_block, is the last byte of the buffer
NewlineEndsBuffer ==
    /\ r.buffer # <<>>
    /\ BFind(r.buffer, _bytes_newline, r.within) + 1 = BLen(r.buffer)

\* C14: when readline finds the next newline at the last position of the
\* buffer it returns the bytes from within_block through that newline and
\* leaves the next block loaded with within_block = 0, so that tell() is
\* (old block_start + old block_raw_length) << 16; and a line that spans a
\* block boundary is returned whole, the pieces from the blocks concatenated.
C14_ReadlineAtBoundary ==
    [][(AtPosition /\ rh'.last = "readline") =>
          /\ rh'.exc = ""
          /\ NewlineEndsBuffer =>
                (/\ rh'.data = BDrop(r.buffer, r.within)
                 /\ r'.within = 0
                 /\ r'.block_start = r.block_start + r.block_raw
                 /\ BgzfReader_tell(r')
                       = PyShl16(Py(r.block_start + r.block_raw)))
          /\ rh'.data = LineAt(StreamPos)]_vars

\* the first clause of C14 alone
C14_NewlineEndsBuffer ==
    [][(AtPosition /\ rh'.last = "readline" /\ NewlineEndsBuffer) =>
          /\ rh'.exc = ""
          /\ rh'.data = BDrop(r.buffer, r.within)
          /\ rh'.data = LineAt(StreamPos)
          /\ r'.within = 0
          /\ r'.block_start = r.block_start + r.block_raw
          /\ BgzfReader_tell(r')
                = PyShl16(Py(r.block_start + r.block_raw))]_vars

\* the whole of C14 on the files in which only the last block is empty
C14_NoEmptyBlock ==
    [][(NoEmptyBlockInside /\ AtPosition /\ rh'.last = "readline") =>
          /\ rh'.exc = ""
          /\ rh'.data = LineAt(StreamPos)]_vars

RECURSIVE SumRaw(_, _)
SumRaw(blocks, i) ==
    IF i > Len(blocks) THEN 0
    ELSE blocks[i].block_length + SumRaw(blocks, i + 1)

\* the bytes that _write_block compressed into blocks it wrote to the sink
RECURSIVE SumWritten(_, _)
SumWritten(log, i) ==
    IF i > Len(log) THEN 0
    ELSE (IF log[i].wrote > 0 THEN log[i].isize ELSE 0)
         + SumWritten(log, i + 1)

\* C15: BgzfBlocks decodes the sink to its end; the block_raw_length of each
\* block is what the decoder consumed for it, so the first block starts at 0,
\* each other block at the previous block's start plus its raw length, and
\* the last block ends at the end of the file; the raw lengths sum to the
\* size of the file and the data lengths to the uncompressed size.
C15_RawLengths ==
    LET holds(b) ==
            /\ b.exc = ""
            /\ \A i \in 1..Len(b.blocks) :
                  /\ b.blocks[i].start_offset
                        = IF i = 1 THEN 0
                          ELSE b.blocks[i - 1].start_offset
                               + b.blocks[i - 1].block_length
                  /\ b.blocks[i].data_start
                        = IF i = 1 THEN 0
                          ELSE b.blocks[i - 1].data_start
                               + BLen(b.blocks[i - 1].data)
                  /\ i = Len(b.blocks) =>
                        b.blocks[i].start_offset + b.blocks[i].block_length
                           = TLen(w.handle.data)
            /\ SumRaw(b.blocks, 1) = TLen(w.handle.data)
            /\ BLen(CatData(b.blocks, 1)) = SumWritten(w.log, 1)
    IN  holds(SinkBlocks)

\* a sink of at least three blocks, one of them 65536 bytes long on disk
C15_Witness ==
    LET seen(b) ==
            /\ b.exc = "" /\ Len(b.blocks) >= 3
            /\ \E i \in 1..Len(b.blocks) : b.blocks[i].block_length = 65536
            /\ \E i \in 1..Len(b.blocks) : b.blocks[i].block_length = 28
            /\ SumRaw(b.blocks, 1) = TLen(w.handle.data)
            /\ SumRaw(b.blocks, 1) > 65536 + 28
    IN  seen(SinkBlocks)

\* C16: a read(n) delivers the n bytes of the stream from the reader's
\* position, or all bytes up to the end of the stream, also when it crosses
\* an empty block that is not the last block of the file.
C16_ReadSkipsEmptyBlock ==
    [][(AtPosition /\ rh'.last = "read" /\ rh'.arg >= 0) =>
          /\ rh'.exc = ""
          /\ rh'.data = BSlice(rh.content, StreamPos, StreamPos + rh'.arg)]_vars

\* the same on the files in which only the last block is empty
C16_ReadNoEmptyBlock ==
    [][(NoEmptyBlockInside /\ AtPosition /\ rh'.last = "read"
        /\ rh'.arg >= 0) =>
          /\ rh'.exc = ""
          /\ rh'.data = BSlice(rh.content, StreamPos, StreamPos + rh'.arg)]_vars

\* C17: between the calls made on a writer (after __init__ and after each
\* write, flush or close, whether it returned or raised) the buffer holds
\* fewer than 65536 bytes.
C17_BufferBelow65536 ==
    wh.last \in {"init", "write", "flush", "close"} => BLen(w.buffer) < 65536

\* the same while no call has raised and the writer has not been closed
C17_BufferBelow65536UnlessRefused ==
    (NothingRefused /\ ~w.handle.closed) => BLen(w.buffer) < 65536

\* the blocks of bs after the first n
NewBlocks(bs, n) == SubSeq(bs, n + 1, Len(bs))

\* C18: when flush returns on an open writer the buffer is empty and the
\* blocks this flush added to the sink carry, in order, the bytes that were
\* in the buffer, the last block those that remained; a buffer of fewer than
\* 65536 bytes goes into one block, and an empty buffer into one block of
\* zero uncompressed bytes (28 bytes in the file).
C18_FlushEmitsRest ==
    [][(/\ wh'.nops = wh.nops + 1 /\ wh'.last = "flush" /\ wh'.exc = ""
        /\ ~w.handle.closed)
       => LET emitted(old, new) ==
                  /\ old.exc = "" /\ new.exc = ""
                  /\ Len(new.blocks) > Len(old.blocks)
                  /\ SubSeq(new.blocks, 1, Len(old.blocks)) = old.blocks
                  /\ CatData(NewBlocks(new.blocks, Len(old.blocks)), 1)
                        = w.buffer
                  /\ BLen(w.buffer) < 65536 =>
                        /\ Len(new.blocks) = Len(old.blocks) + 1
                        /\ new.blocks[Len(new.blocks)].data = w.buffer
                  /\ w.buffer = <<>> =>
                        TLen(w'.handle.data) = TLen(w.handle.data) + 28
          IN  /\ w'.buffer = <<>>
              /\ ~w'.handle.closed
              /\ emitted(BgzfBlocks(w.handle.data),
                         BgzfBlocks(w'.handle.data))]_vars

\* a flush of an empty buffer returned and added one block of 28 bytes, with
\* no data, to the sink
C18_Witness ==
    /\ wh.last = "flush" /\ wh.exc = "" /\ ~wh.preclosed
    /\ w.buffer = <<>>
    /\ TLen(w.handle.data) = wh.presize + 28
    /\ Len(w.log) >= 1
    /\ w.log[Len(w.log)].isize = 0 /\ w.log[Len(w.log)].wrote = 28

\* C19: when flush runs with 65536 bytes or more in the buffer, every block
\* that its loop writes before the last block carries exactly 65536
\* uncompressed bytes, the slice that write uses.
C19_FlushSlices65536 ==
    [][(/\ wh'.nops = wh.nops + 1 /\ wh'.last = "flush"
        /\ BLen(w.buffer) >= 65536)
       => \A i \in (Len(w.log) + 1)..(Len(w'.log) - 1) :
             w'.log[i].wrote > 0 => w'.log[i].isize = 65536]_vars

\* C20: the cache never holds more than max_cache blocks (one entry for each
\* key); a call adds entries only for blocks that were not in the cache, and
\* a seek to the current block or to a block in the cache leaves the cache as
\* it was.
C20_CacheBound ==
    /\ [](/\ r.max_cache >= 1
          /\ Cardinality(r.buffers) <= r.max_cache
          /\ \A e \in r.buffers : \A f \in r.buffers :
                e.key = f.key => e = f)
    /\ [][/\ \A e \in r'.buffers \ r.buffers : ~Cached(r, e.key)
          /\ (/\ rh'.last = "seek"
              /\ \/ Cached(r, PyVal(PyShr16(rh'.argv)))
                 \/ PyVal(PyShr16(rh'.argv)) = r.block_start)
             => r'.buffers = r.buffers]_vars

\* with max_cache = 2 the cache is full and the first block of the file,
\* loaded by __init__, is no longer in it: a block was evicted
C20_Witness ==
    /\ r.max_cache = 2 /\ Cardinality(r.buffers) = 2
    /\ ~Cached(r, 0) /\ rh.exc = ""

\* the lengths of the compressed payloads in the sink, in order: one for each
\* block that _write_block wrote, and the two bytes of the EOF block
PayloadsWritten ==
    LET wrote(e) == e.wrote > 0
        written == SelectSeq(w.log, wrote)
    IN  [i \in 1..Len(written) |-> written[i].csize]
        \o (IF w.neof = 1 THEN <<2>> ELSE <<>>)

\* C21 as claimed: for every block, the decoder reads block_size - extra_len
\* - 19 bytes as the DEFLATE payload, block_size being the length of the
\* block in the file (the BC value plus 1).
C21_PayloadIsBsizeLess19 ==
    LET holds(d) ==
            /\ d.exc = ""
            /\ \A i \in 1..Len(d.blocks) :
                  d.blocks[i].deflate_size
                     = d.blocks[i].block_size - d.blocks[i].extra_len - 19
    IN  holds(Decoded(w.handle.data))

\* C21: for every block, the decoder reads block_size - 1 - extra_len - 19
\* bytes as the DEFLATE payload (the BC value less extra_len and 19),
\* block_size being the length of the block in the file: the 6 bytes of the
\* extra area and 20 more bytes less than the block, which is the length of
\* the payload that _write_block put there.
C21_PayloadIsBsizeLess20 ==
    LET holds(d) ==
            /\ d.exc = ""
            /\ Len(d.blocks) = Len(PayloadsWritten)
            /\ \A i \in 1..Len(d.blocks) :
                  /\ d.blocks[i].deflate_size
                        = d.blocks[i].block_size - 1
                          - d.blocks[i].extra_len - 19
                  /\ d.blocks[i].extra_len = 6
                  /\ d.blocks[i].deflate_size = PayloadsWritten[i]
                  /\ d.blocks[i].block_size = PayloadsWritten[i] + 26
    IN  holds(Decoded(w.handle.data))

\* a block of 65536 bytes in the file was decoded by reading a payload of
\* 65510 bytes, and the EOF block by reading 2
C21_Witness ==
    LET seen(d) ==
            /\ d.exc = ""
            /\ \E i \in 1..Len(d.blocks) :
                  /\ d.blocks[i].block_size = 65536
                  /\ d.blocks[i].deflate_size = 65510
            /\ \E i \in 1..Len(d.blocks) :
                  /\ d.blocks[i].block_size = 28
                  /\ d.blocks[i].deflate_size = 2
    IN  seen(Decoded(w.handle.data))

\* C22: BgzfReader(fileobj=f), with no filename, f an open binary file at the
\* start of a block and max_cache >= 1, returns a reader that has loaded the
\* block at the position of f: block_start is that position and
\* within_block = 0.
C22_FileobjConstructs ==
    (/\ rh.last = "init" /\ rh.given /\ ~rh.named
     /\ "b" \in ModeLetters(rh.hmode) /\ rh.pos \in rh.starts
     /\ rh.max_cache >= 1)
       => /\ rh.exc = ""
          /\ r.block_start = rh.pos /\ r.within = 0

\* the same for BgzfReader(filename), the mode left at "r" or given as "rb":
\* the block at position 0 is loaded
C22_FilenameConstructs ==
    (/\ rh.last = "init" /\ rh.named /\ ~rh.given
     /\ rh.mode \in {<<"r">>, <<"rb">>} /\ rh.max_cache >= 1)
       => /\ rh.exc = ""
          /\ r.block_start = 0 /\ r.within = 0 /\ r.handle.pos = r.block_raw

\* no call with fileobj returns a reader
C22_FileobjNeverConstructs ==
    (rh.last = "init" /\ rh.given) => rh.exc \in {"ValueError", "AssertionError", "AttributeError"}

RECURSIVE CatLines(_, _)
CatLines(lines, i) ==
    IF i > Len(lines) THEN <<>> ELSE BCat(lines[i], CatLines(lines, i + 1))

\* b is a line: not empty, and with no newline before its last byte
IsLine(b) ==
    /\ b # <<>>
    /\ BFind(b, _bytes_newline, 0) \in {-1, BLen(b) - 1}

EndsInNewline(b) == BFind(b, _bytes_newline, 0) = BLen(b) - 1

\* C23: a loop over a reader, from the start of a well-formed file, yields
\* lines that are not empty, each ending in a newline except possibly the
\* last; what it has yielded so far is the start of the decompressed stream,
\* and when it stops (next raises StopIteration, the first time readline
\* returns an empty string) it has yielded the whole stream.
C23_IterationYieldsLines ==
    LET holds(content, yielded) ==
            /\ yielded = BTake(content, BLen(yielded))
            /\ rh.done => yielded = content
    IN  /\ rh.exc \in {"", "StopIteration"}
        /\ \A i \in 1..Len(rh.lines) : IsLine(rh.lines[i])
        /\ \A i \in 1..(Len(rh.lines) - 1) : EndsInNewline(rh.lines[i])
        /\ holds(CatData(rh.blocks, 1), CatLines(rh.lines, 1))

\* the same on the files in which only the last block is empty
C23_IterationNoEmptyBlock == NoEmptyBlockInside => C23_IterationYieldsLines

\* what a reader shows of its position: the current block and the offset
\* in it
Position(self) ==
    [block_start |-> self.block_start, block_raw |-> self.block_raw,
     buffer |-> self.buffer, within |-> self.within]

\* C24: whatever seek, read, readline and tell calls are made on a reader
\* with max_cache = 1 and on one with a larger max_cache, on the same file,
\* and whichever entries are evicted, every call returns the same on both
\* (the same value or the same exception), and leaves both on the same
\* block at the same offset.
C24_CacheTransparent ==
    /\ rh.one = rh.more
    /\ Position(r.one) = Position(r.more)

\* a call returned data on both readers when the one with max_cache = 1
\* had to read the block from the file again, and the other, holding two
\* blocks and the first block of the file among them, had not
C24_Witness ==
    /\ rh.nops = 2 /\ rh.one.exc = "" /\ rh.one = rh.more
    /\ r.one.block_start = 0 /\ r.more.block_start = 0
    /\ Cardinality(r.one.buffers) = 1
    /\ Cardinality(r.more.buffers) = 2
    /\ r.one.handle.pos # r.more.handle.pos

\* C25: over read and readline calls with no seek between them, tell()
\* never decreases, and once a read(n) with n > 0 has returned an empty
\* string every later read and readline returns an empty string.
C25_ForwardOnly ==
    [][/\ ~PyLess(BgzfReader_tell(r'), BgzfReader_tell(r))
       /\ (rh.ended /\ rh'.nops = rh.nops + 1) =>
             (rh'.exc = "" /\ rh'.data = <<>>)]_vars

\* the first clause of C25 alone: tell() never decreases, and no call raises
C25_TellNeverDecreases ==
    [][/\ ~PyLess(BgzfReader_tell(r'), BgzfReader_tell(r))
       /\ rh'.exc = ""]_vars

\* the second clause of C25 on the files in which only the last block is
\* empty
C25_EmptyStaysEmpty ==
    [][(NoEmptyBlockInside /\ rh.ended /\ rh'.nops = rh.nops + 1) =>
          (rh'.exc = "" /\ rh'.data = <<>>)]_vars

\* the step is a seek that raised the ValueError of the test of within_block
\* against the buffer: the block sought was the current one, or it was loaded
RangeErrorStep ==
    /\ rh'.last = "seek" /\ rh'.exc = "ValueError"
    /\ \/ SoughtBlock' = r.block_start
       \/ BlocksAt(SoughtBlock') # {}
       \/ SoughtBlock' >= TLen(r.handle.data)

\* C26 as stated: a seek that fails with the range error on within_block
\* leaves block_start, the buffer and within_block as they were before the
\* call.
C26_FailedSeekKeepsPosition ==
    [][RangeErrorStep =>
          /\ r'.block_start = r.block_start
          /\ r'.buffer = r.buffer
          /\ r'.within = r.within]_vars

\* C26: a seek that fails with the range error on within_block leaves the
\* reader untouched when the block sought is the current one, and otherwise
\* leaves it on the block sought, with that block's data as the buffer and
\* within_block = 0.
C26_FailedSeekStaysOnSoughtBlock ==
    [][RangeErrorStep =>
          IF SoughtBlock' = r.block_start
          THEN r' = r
          ELSE /\ r'.block_start = SoughtBlock'
               /\ r'.within = 0
               /\ \A i \in BlocksAt(SoughtBlock') :
                     /\ r'.buffer = rh.blocks[i].data
                     /\ r'.block_raw = rh.blocks[i].block_length
               /\ BlocksAt(SoughtBlock') = {} => r'.buffer = <<>>]_vars

\* the first call was a seek into another block that failed with the range
\* error, and the reader is now on that block
C26_Witness ==
    /\ rh.nops = 1 /\ rh.last = "seek" /\ rh.exc = "ValueError"
    /\ SoughtBlock # 0 /\ BlocksAt(SoughtBlock) # {}
    /\ SoughtWithin > 0
    /\ r.block_start = SoughtBlock /\ r.within = 0

\* C27: after any write and flush calls on a BgzfWriter and close, the data
\* returned by the read calls made on a BgzfReader of the file, from its
\* start until read returns an empty string, are, in order, all the data
\* passed to write.
C27_ReadLoopYieldsAll ==
    (rh.phase = "read" /\ rh.ended) => (rh.exc = "" /\ rh.got = wh.passed)

\* the file has an empty block before its last block
EmptyInnerBlock ==
    \E i \in 1..(Len(Layout(w.handle.data)) - 1) :
        Layout(w.handle.data)[i].data = <<>>

\* the same, for the files in which only the last block is empty
C27_ReadLoopNoEmptyBlock ==
    (rh.phase = "read" /\ rh.ended /\ ~EmptyInnerBlock)
        => (rh.exc = "" /\ rh.got = wh.passed)

\* every read loop returns a prefix of the data passed to write, and raises
\* nothing
C27_ReadLoopYieldsPrefix ==
    rh.phase = "read"
        => /\ rh.exc = ""
           /\ BLen(rh.got) <= BLen(wh.passed)
           /\ rh.got = BTake(wh.passed, BLen(rh.got))

\* C28: while a BgzfWriter on which write and flush have been called is
\* open, the sink decodes, and the data of its blocks, in order, followed by
\* the buffer, are all the data passed to write, in order.
C28_NothingLost ==
    LET holds(b) ==
            /\ b.exc = ""
            /\ BCat(CatData(b.blocks, 1), w.buffer) = wh.passed
    IN  wh.closes = 0 => holds(SinkBlocks)

\* an open writer after a write that emitted blocks and left bytes in the
\* buffer, and a flush that emptied the buffer before it
C28_Witness ==
    /\ wh.closes = 0 /\ wh.flushes >= 1 /\ wh.last = "write" /\ wh.exc = ""
    /\ Len(SinkBlocks.blocks) >= 3
    /\ w.buffer # <<>>
    /\ BLen(wh.passed) > 65536

====
